---- MODULE Spec2Model ----
(***************************************************************************)
(* Discogs extractor: the pipeline orchestrator (process_discogs_data,     *)
(* process_single_file, run_extraction_loop), the StateMarker it persists  *)
(* and the shutdown notifier, as a state machine.                          *)
(***************************************************************************)
EXTENDS Integers, Sequences, FiniteSets, TLC

(***************************************************************************)
(* Bounds of the model.                                                    *)
(***************************************************************************)
\* records in a data file: the first file has one more than the others
MaxRecords == 1
\* injected failures (download, save, connect, parse, publish, crash) per
\* behaviour
MaxFaults == 1
\* data files of the version whose download can succeed
MaxServed == 4
\* file names used when the StateMarker operations are run on their own
MaxMarkerFiles == 1
\* records of the file of the pipeline that is modelled in detail
PipeRecords == 12
MaxRetries == 8
MaxBatch == 3
InitialBackoff == 1
BackoffCap == 30
\* the stall threshold of the progress reporter, in seconds
StallSeconds == 120
\* the first three sleeps of the progress reporter and the later ones
ShortInterval == 10
LongInterval == 30
ShortReports == 3
MicrosPerSecond == 1000000
MaxDigest == 2
MaxSize == 2
\* start tags and self-closing tags of the document parse_file reads
MaxTags == 4
\* wake-ups of the progress reporter
MaxReports == 7
\* largest reading, in microseconds, of Instant::now().elapsed()
MaxFresh == 1

(***************************************************************************)
(* Program constants.                                                      *)
(***************************************************************************)
\* the four data files of a complete version, named by their data type
Files == {"artists", "labels", "masters", "releases"}
\* width of the semaphore that caps concurrent file pipelines
SemaphoreWidth == 3
\* the batcher updates and saves the marker every state_save_interval records
\* (scaled down from the configured 5000)
StateSaveInterval == 1
\* batch_size of the batcher (scaled down from the configured 100)
BatchSize == 2
\* batch_size in the pipeline that is modelled in detail
PipeBatchSize == 3
\* state_save_interval in the pipeline that is modelled in detail
PipeSaveInterval == 2
\* capacity of the record channel, queue_size (scaled down from the
\* configured 5000)
QueueSize == 1
\* capacity of the batch channel, in batches (scaled down from 100)
BatchChannelCap == 1

(***************************************************************************)
(* StateMarker (state_marker.rs).                                          *)
(***************************************************************************)
\* no entry in progress_by_file is rendered as an entry of status "Absent"
NoEntry == [status |-> "Absent", records_extracted |-> 0,
            messages_published |-> 0, batches_sent |-> 0]

RECURSIVE SumOver(_, _)
SumOver(S, g) ==
  IF S = {} THEN 0
  ELSE LET x == CHOOSE y \in S : TRUE IN g[x] + SumOver(S \ {x}, g)

SumRecords(m) ==
  SumOver(Files, [f \in Files |-> m.progress_by_file[f].records_extracted])
SumMessages(m) ==
  SumOver(Files, [f \in Files |-> m.progress_by_file[f].messages_published])
SumBatches(m) ==
  SumOver(Files, [f \in Files |-> m.progress_by_file[f].batches_sent])
CompletedFiles(m) == {f \in Files : m.progress_by_file[f].status = "Completed"}

\* StateMarker::new
NewMarker ==
  [download_status |-> "Pending", files_downloaded |-> 0,
   processing_status |-> "Pending", files_total |-> 0, files_processed |-> 0,
   records_extracted |-> 0,
   publishing_status |-> "Pending", messages_published |-> 0, batches_sent |-> 0,
   overall_status |-> "Pending",
   progress_by_file |-> [f \in Files |-> NoEntry]]

\* variant: the summary is not consulted
should_process_no_skip(m) ==
  IF m.download_status = "Failed" THEN "Reprocess" ELSE "Continue"

should_process(m) ==
  IF m.download_status = "Failed" THEN "Reprocess"
  ELSE IF m.processing_status = "Failed" THEN "Continue"
  ELSE IF m.processing_status = "InProgress" THEN "Continue"
  ELSE IF m.overall_status = "Completed" THEN "Skip"
  ELSE "Continue"

start_download(m) ==
  [m EXCEPT !.download_status = "InProgress", !.files_downloaded = 0]

file_downloaded(m) ==
  [m EXCEPT !.files_downloaded = @ + 1]

complete_download(m) ==
  [m EXCEPT !.download_status = "Completed"]

start_processing(m, files_total) ==
  [m EXCEPT !.processing_status = "InProgress",
            !.files_total = files_total,
            !.files_processed = 0,
            !.records_extracted = 0,
            !.overall_status = "InProgress"]

start_file_processing(m, f) ==
  [m EXCEPT !.progress_by_file[f] =
       [status |-> "InProgress", records_extracted |-> 0,
        messages_published |-> 0, batches_sent |-> 0]]

\* the three aggregates recomputed as sums over progress_by_file
Recomputed(m) ==
  [m EXCEPT !.records_extracted = SumRecords(m),
            !.messages_published = SumMessages(m),
            !.batches_sent = SumBatches(m)]

update_file_progress(m, f, records, messages, batches) ==
  LET m1 == IF m.progress_by_file[f].status = "Absent" THEN m
            ELSE [m EXCEPT !.progress_by_file[f].records_extracted = records,
                           !.progress_by_file[f].messages_published = messages,
                           !.progress_by_file[f].batches_sent = batches]
      m2 == Recomputed(m1)
  IN  IF m2.messages_published > 0
      THEN [m2 EXCEPT !.publishing_status = "InProgress"]
      ELSE m2

complete_file_processing(m, f, records) ==
  LET m1 == IF m.progress_by_file[f].status = "Absent" THEN m
            ELSE [m EXCEPT !.progress_by_file[f].status = "Completed",
                           !.progress_by_file[f].records_extracted = records]
      m2 == [m1 EXCEPT !.files_processed = @ + 1]
  IN  Recomputed(m2)

complete_processing(m) ==
  [m EXCEPT !.processing_status = "Completed"]

fail_download(m) ==
  [m EXCEPT !.download_status = "Failed", !.overall_status = "Failed"]

fail_processing(m) ==
  [m EXCEPT !.processing_status = "Failed", !.overall_status = "Failed"]

update_publishing(m, messages, batches) ==
  [m EXCEPT !.publishing_status = "InProgress",
            !.messages_published = @ + messages,
            !.batches_sent = @ + batches]

fail_publishing(m) ==
  [m EXCEPT !.publishing_status = "Failed"]

complete_extraction(m) ==
  [m EXCEPT !.publishing_status = "Completed", !.overall_status = "Completed"]

\* variant: every file is pending
pending_files_unfiltered(m, all_files) == all_files

pending_files(m, all_files) ==
  {f \in all_files : m.progress_by_file[f].status # "Completed"}

(***************************************************************************)
(* State of the process and of its environment.                            *)
(***************************************************************************)
VARIABLES
  pc,          \* position of run_extraction_loop / process_discogs_data
  initial,     \* TRUE while the run is the initial one of the process
  force,       \* the force_reprocess flag, until the initial run has read it
  signalled,   \* the interrupt signal has been received (notify_waiters called)
  notified,    \* the loop's Notified future in the periodic select is complete
  faults,      \* failures injected so far
  remote,      \* data files whose download (or cache check) can succeed
  marker,      \* the in-memory StateMarker of the run
  disk,        \* the marker file: <<>> when absent, <<m>> when it holds m
  data_files,  \* files returned by download_discogs_data in this run
  pipe,        \* per file: position of its task / process_single_file
  parser,      \* per file: state of the parser task
  recs,        \* per file: total_records of the batcher
  acc,         \* per file: length of the batcher's accumulator (batch)
  batches,     \* per file: total_batches of the batcher
  batchq,      \* per file: sizes of the batches in the batch channel
  handled,     \* per file: records the publisher has taken from the channel
  pubd,        \* per file: DataMessages of this pipeline acked by the broker
  fcPub,       \* per file: this pipeline's FileCompleteMessage was acked
  delivered,   \* per file: record numbers ever acked by the broker
  fcEver,      \* per file: a FileCompleteMessage was ever acked by the broker
  lossy,       \* files with a failed publish (of a batch or of file_complete)
  parseErr,    \* files whose parse failed and that were not started again
  crashed,     \* the process was killed at least once
  doneAtCrash, \* files Completed in the marker file at the last kill
  gapAtCrash,  \* those of them whose FileCompleteMessage was never acked
  writeFailed, \* a write of the marker file failed in the current run
  error_count, \* ExtractorState.error_count of the process
  active_connections, \* ExtractorState.active_connections: the data types
               \* that have an entry
  extraction_progress, \* ExtractorState.extraction_progress: a counter per
               \* data type
  \* one file pipeline in detail (records are numbered in document order)
  stage,       \* position of process_single_file
  parsing,     \* parse_file: "run", "eof" (returned Ok) or "err"
  record_count,\* record_count of parse_file: records sent so far
  rchan,       \* the record channel (parse_sender -> parse_receiver)
  batch,       \* the batcher's accumulator
  elapsed,     \* last_flush.elapsed() is more than one second
  batcherDone, \* message_batcher has returned (batch_sender dropped)
  bchan,       \* the batch channel (batch_sender -> batch_receiver)
  inpub,       \* the batch the publisher is publishing
  published,   \* DataMessages acked by the broker, in order
  fcmsgs,      \* total_processed of the FileCompleteMessages acked
  received,    \* records the batcher has received, in order
  sentflat,    \* concatenation of the batches the batcher has sent
  total_batches, \* total_batches of the batcher
  pubfail,     \* a publish of the pipeline failed or was not acked
  listing,     \* get_latest_monthly_files: the files argument
  latest,      \* get_latest_monthly_files: the list returned
  file_info,   \* should_download: the remote size, the local file, its
               \* metadata entry
  stale,       \* should_download: the value returned
  plan,        \* download_discogs_data: what happens to each selected file
  dl,          \* download_discogs_data: position in its loop and locals
  conn,        \* MessageQueue::connect: max_retries, locals, sleeps, result
  link,        \* publish, publish_batch: the channel and the broker's replies
  single,      \* publish of the first message: the result
  batched,     \* publish_batch of the messages: the result
  element,     \* parse_file: a target element at depth 2
  selfclosed,  \* parse_file: what the element emits as <x .../>
  paired,      \* parse_file: what the element emits as <x ...>...</x>
  xml,         \* the document parse_file reads and the record channel's
               \* receiver
  pfile,       \* parse_file: its locals, the messages sent, its result
  reporter,    \* progress_reporter: its locals, the fields of the shared
               \* state it reads, and the clock
  task,        \* ProcessingState-based process_discogs_data: the position
               \* of each spawned file task
  ps,          \* the ProcessingState a file task has loaded
  processing_state_file \* the files marked true in .processing_state.json

ctl == <<pc, initial, force>>
sig == <<signalled, notified>>
workers == <<parser, recs, acc, batches, batchq, handled, pubd,
             extraction_progress>>
broker == <<delivered, fcEver>>
crashlog == <<crashed, doneAtCrash, gapAtCrash>>
vars == <<pc, initial, force, signalled, notified, faults, remote, marker,
          disk, data_files, pipe, parser, recs, acc, batches, batchq, handled,
          pubd, fcPub, delivered, fcEver, lossy, parseErr, crashed,
          doneAtCrash, gapAtCrash, writeFailed, error_count,
          extraction_progress, active_connections, stage, parsing,
          record_count, rchan, batch, elapsed, batcherDone, bchan, inpub,
          published, fcmsgs, received, sentflat, total_batches, pubfail,
          listing, latest, file_info, stale, plan, dl, conn, link, single,
          batched, element, selfclosed, paired, xml, pfile, reporter, task,
          ps, processing_state_file>>
\* arguments and results of the functions checked on their own
functions == <<listing, latest, file_info, stale, plan, dl, conn, link,
               single, batched, element, selfclosed, paired, xml, pfile,
               reporter>>
\* the file tasks of the ProcessingState-based orchestrator
tasking == <<task, ps, processing_state_file>>
\* the parts checked on their own
units == <<functions, tasking>>
detail == <<stage, parsing, record_count, rchan, batch, elapsed, batcherDone,
            bchan, inpub, published, fcmsgs, received, sentflat,
            total_batches, pubfail>>

\* the orchestrator treats the four files alike: the files that can be
\* downloaded are taken in a fixed order
FileOrder == <<"artists", "labels", "masters", "releases">>
Served(n) == {FileOrder[i] : i \in 1..(IF n < 4 THEN n ELSE 4)}

\* number of records the parser finds in each file
FileRecords ==
  [f \in Files |-> IF f = FileOrder[1] THEN MaxRecords + 1 ELSE MaxRecords]

Zero == [f \in Files |-> 0]
None == [f \in Files |-> FALSE]

\* variant: the counters of the last run are kept
ProgressKept(progress) == progress

\* ExtractionProgress::default()
ExtractionProgressDefault == Zero

\* s.extraction_progress = ExtractionProgress::default() at the start of
\* process_discogs_data
ProgressReset(progress) == ExtractionProgressDefault

\* ExtractionProgress::increment
increment(progress, data_type) == [progress EXCEPT ![data_type] = @ + 1]

\* memory of a freshly started process
FreshProcess ==
  /\ pc = "start"
  /\ initial = TRUE
  /\ signalled = FALSE
  /\ notified = FALSE
  /\ marker = NewMarker
  /\ data_files = {}
  /\ pipe = [f \in Files |-> "idle"]
  /\ parser = [f \in Files |-> "none"]
  /\ recs = Zero /\ acc = Zero /\ batches = Zero /\ handled = Zero /\ pubd = Zero
  /\ batchq = [f \in Files |-> <<>>]
  /\ fcPub = None
  /\ error_count = 0
  /\ extraction_progress = ExtractionProgressDefault
  /\ active_connections = {}

\* the detailed pipeline before its workers are spawned
DetailInit ==
  /\ stage = "workers"
  /\ parsing = "run"
  /\ record_count = 0
  /\ rchan = <<>>
  /\ batch = <<>>
  /\ elapsed = FALSE
  /\ batcherDone = FALSE
  /\ bchan = <<>>
  /\ inpub = <<>>
  /\ published = <<>>
  /\ fcmsgs = <<>>
  /\ received = <<>>
  /\ sentflat = <<>>
  /\ total_batches = 0
  /\ pubfail = FALSE

\* no function has been called on its own
NotCalled == <<>>
\* the value a call returned
Returned(v) == <<v>>
\* download_discogs_data before its loop over latest_files
LoopStart == [pos |-> 1, tried |-> <<>>, downloaded_files |-> <<>>,
              result |-> <<>>]
\* no local file, no metadata entry, remote size unknown
NoFile == [exists |-> FALSE, sha |-> 0, meta |-> <<>>, size |-> 0]
\* no file task has been spawned
TasksIdle ==
  /\ task = [f \in Files |-> "idle"]
  /\ ps = [f \in Files |-> <<>>]
  /\ processing_state_file = {}

UnitsIdle ==
  /\ TasksIdle
  /\ listing = {}
  /\ latest = NotCalled
  /\ file_info = NoFile
  /\ stale = NotCalled
  /\ plan = <<>>
  /\ dl = LoopStart
  /\ conn = <<>>
  /\ link = <<>>
  /\ single = NotCalled
  /\ batched = NotCalled
  /\ element = <<>>
  /\ selfclosed = NotCalled
  /\ paired = NotCalled
  /\ xml = <<>>
  /\ pfile = <<>>
  /\ reporter = <<>>

\* the first process finds no marker file, so its force flag has no effect
ProgramInit ==
  /\ FreshProcess
  /\ DetailInit
  /\ force = FALSE
  /\ faults = 0
  /\ remote \in {Served(n) : n \in 1..MaxServed}
  /\ disk = <<>>
  /\ delivered = [f \in Files |-> {}]
  /\ fcEver = None
  /\ lossy = {}
  /\ parseErr = {}
  /\ crashed = FALSE
  /\ doneAtCrash = {}
  /\ gapAtCrash = {}
  /\ writeFailed = FALSE

Init == ProgramInit /\ UnitsIdle

\* outcomes of an operation that can fail: failing spends one injected fault
Outcomes == IF faults < MaxFaults THEN {TRUE, FALSE} ELSE {TRUE}
Spend(ok) == faults' = IF ok THEN faults ELSE faults + 1

\* StateMarker::save: the file holds m when the write succeeds
save(m, ok) == IF ok THEN <<m>> ELSE disk
\* the outcome of a write of the marker file is remembered for the run
Wrote(ok) == writeFailed' = (writeFailed \/ ~ok)

(***************************************************************************)
(* process_discogs_data (extractor.rs) up to the spawning of the file      *)
(* tasks.                                                                  *)
(***************************************************************************)
IdlePipes ==
  /\ pipe' = [f \in Files |-> "idle"]
  /\ parser' = [f \in Files |-> "none"]
  /\ recs' = Zero /\ acc' = Zero /\ batches' = Zero /\ handled' = Zero
  /\ pubd' = Zero
  /\ batchq' = [f \in Files |-> <<>>]
  /\ fcPub' = None
  /\ error_count' = 0
  /\ extraction_progress' = ProgressReset(extraction_progress)
  /\ active_connections' = {}

\* variant: a failed initial run is treated like a failed periodic run
RunEndLenient(result) ==
  /\ pc' = "sleep"
  /\ initial' = FALSE
  /\ marker' = NewMarker
  /\ data_files' = {}

\* process_discogs_data returns: "ok" is Ok(true), "fail" is Ok(false),
\* "err" is Err(e); run_extraction_loop goes on from there
RunEnd(result) ==
  /\ pc' = IF initial /\ result # "ok" THEN "exit_err" ELSE "sleep"
  /\ initial' = FALSE
  /\ marker' = NewMarker
  /\ data_files' = {}

\* the marker the run starts from: a new one when forced, else the file's
LoadOrNew == IF (initial /\ force) \/ disk = <<>> THEN NewMarker ELSE disk[1]

\* start of a run: listing, marker load and the should_process decision
BeginRun ==
  /\ pc = "start"
  /\ IdlePipes
  /\ \E listed \in Outcomes :
       /\ Spend(listed)
       /\ IF ~listed
          THEN RunEnd("err")
          ELSE IF should_process(LoadOrNew) = "Skip"
          THEN RunEnd("ok")
          ELSE /\ marker' = IF should_process(LoadOrNew) = "Reprocess"
                            THEN NewMarker ELSE LoadOrNew
               /\ pc' = "download"
               /\ UNCHANGED <<initial, data_files>>
  /\ IF initial /\ force
     THEN /\ delivered' = [f \in Files |-> {}]
          /\ fcEver' = None
          /\ lossy' = {}
          /\ parseErr' = {}
          /\ crashed' = FALSE
          /\ doneAtCrash' = {}
          /\ gapAtCrash' = {}
     ELSE UNCHANGED <<broker, crashlog, lossy, parseErr>>
  /\ force' = FALSE
  /\ UNCHANGED <<sig, remote, disk>>
  /\ writeFailed' = FALSE
  /\ UNCHANGED <<detail, units>>

RECURSIVE DownloadedAll(_, _)
\* the downloader's loop: file_downloaded for each of n files
DownloadedAll(m, n) ==
  IF n = 0 THEN m ELSE DownloadedAll(file_downloaded(m), n - 1)

\* Downloader::download_discogs_data with the marker attached: the files of
\* got are downloaded or found in the cache, the others fail and are omitted;
\* the marker saves of the downloader ignore write errors
Download ==
  /\ pc = "download"
  /\ \E got \in SUBSET remote, ok \in Outcomes :
       /\ faults + Cardinality(remote \ got) + (IF ok THEN 0 ELSE 1) <= MaxFaults
       /\ faults' = faults + Cardinality(remote \ got) + (IF ok THEN 0 ELSE 1)
       /\ marker' = complete_download(
                      DownloadedAll(start_download(marker), Cardinality(got)))
       /\ disk' = save(marker', ok)
       /\ Wrote(ok)
       /\ data_files' = got
  /\ pc' = "dispatch"
  /\ UNCHANGED <<initial, force, sig, remote, pipe, workers,
                 fcPub, broker, crashlog, lossy, parseErr>>
  /\ UNCHANGED <<error_count, active_connections>>
  /\ UNCHANGED <<detail, units>>

\* from the download to the spawned tasks: start of the processing phase,
\* pending_files, and the early return when nothing is pending
Dispatch ==
  /\ pc = "dispatch"
  /\ IF data_files = {}
     THEN /\ RunEnd("ok")
          /\ UNCHANGED <<disk, faults, pipe, writeFailed>>
     ELSE \E ok1 \in Outcomes :
            /\ (marker.processing_status = "Completed") => ok1
            /\ LET started == marker.processing_status # "Completed"
                   m1 == IF started
                         THEN start_processing(marker, Cardinality(data_files))
                         ELSE marker
                   d1 == IF started /\ ok1 THEN <<m1>> ELSE disk
                   pend == pending_files(m1, data_files)
                   m2 == complete_extraction(complete_processing(m1))
               IN  IF started /\ ~ok1
                   THEN /\ Spend(FALSE)
                        /\ disk' = disk
                        /\ Wrote(FALSE)
                        /\ RunEnd("err")
                        /\ UNCHANGED pipe
                   ELSE IF pend = {}
                   THEN \E ok2 \in Outcomes :
                          /\ Spend(ok1 /\ ok2)
                          /\ Wrote(ok1 /\ ok2)
                          /\ disk' = IF ok2 THEN <<m2>> ELSE d1
                          /\ RunEnd(IF ok2 THEN "ok" ELSE "err")
                          /\ UNCHANGED pipe
                   ELSE /\ Spend(ok1)
                        /\ Wrote(ok1)
                        /\ disk' = d1
                        /\ marker' = m1
                        /\ pipe' = [f \in Files |->
                                      IF f \in pend THEN "waiting" ELSE "idle"]
                        /\ pc' = "await"
                        /\ data_files' = {}
                        /\ UNCHANGED initial
  /\ UNCHANGED <<force, sig, remote, workers, fcPub, broker,
                 crashlog, lossy, parseErr>>
  /\ UNCHANGED <<error_count, active_connections>>
  /\ UNCHANGED <<detail, units>>

(***************************************************************************)
(* The file tasks: semaphore, process_single_file and its three workers.   *)
(***************************************************************************)
\* variant: the permit is given back once the file is marked Completed
HoldingRunningOnly == {f \in Files : pipe[f] = "running"}

\* tasks that hold a semaphore permit
Holding == {f \in Files : pipe[f] \in {"running", "completed"}}

\* variant: the result of the marker save is ignored and the function goes on
AfterSaveIgnored(ok, next) == next

\* position of process_single_file after one of its marker saves
AfterSave(ok, next) == IF ok THEN next ELSE "failed"

\* the task gets a permit, marks the file started and saves the marker, then
\* connects to the broker (MessageQueue::new, setup_queues) and spawns the
\* three workers; a failed save or a failed connection ends the task
StartFile(f) ==
  /\ pipe[f] = "waiting"
  /\ Cardinality(Holding) < SemaphoreWidth
  /\ \E saved \in Outcomes, connected \in Outcomes :
       /\ saved \/ connected
       /\ Spend(saved /\ connected)
       /\ marker' = start_file_processing(marker, f)
       /\ disk' = save(marker', saved)
       /\ Wrote(saved)
       /\ pipe' = [pipe EXCEPT ![f] =
                     AfterSave(saved, IF connected THEN "running" ELSE "failed")]
       /\ parser' = [parser EXCEPT ![f] =
                       IF saved /\ connected THEN "run" ELSE "none"]
       /\ active_connections' = IF saved /\ connected
                               THEN active_connections \cup {f}
                               ELSE active_connections
  /\ parseErr' = parseErr \ {f}
  /\ UNCHANGED <<ctl, sig, remote, data_files, recs, acc, batches, batchq,
                 handled, pubd, fcPub, broker, crashlog, lossy>>
  /\ UNCHANGED <<error_count, extraction_progress>>
  /\ UNCHANGED <<detail, units>>

\* the parser emits a record and the batcher takes it: counters, the periodic
\* marker update and save (a failed save only warns), the flush of a full batch
ParseRecord(f) ==
  /\ pipe[f] = "running"
  /\ parser[f] = "run"
  /\ recs[f] < FileRecords[f]
  /\ LET r == recs[f] + 1
         saving == r % StateSaveInterval = 0
         full == acc[f] + 1 >= BatchSize
     IN  /\ recs' = [recs EXCEPT ![f] = r]
         /\ extraction_progress' = increment(extraction_progress, f)
         /\ \E ok \in Outcomes :
              /\ saving \/ ok
              /\ Spend(ok)
              /\ marker' = IF saving
                           THEN update_file_progress(marker, f, r, r, batches[f])
                           ELSE marker
              /\ disk' = IF saving THEN save(marker', ok) ELSE disk
              /\ Wrote(ok)
         /\ acc' = [acc EXCEPT ![f] = IF full THEN 0 ELSE @ + 1]
         /\ batchq' = [batchq EXCEPT ![f] =
                         IF full THEN Append(@, acc[f] + 1) ELSE @]
         /\ batches' = [batches EXCEPT ![f] = IF full THEN @ + 1 ELSE @]
  /\ UNCHANGED <<ctl, sig, remote, data_files, pipe, parser, handled,
                 pubd, fcPub, broker, crashlog, lossy, parseErr>>
  /\ UNCHANGED <<error_count, active_connections>>
  /\ UNCHANGED <<detail, units>>

\* the record channel is closed: the batcher sends its residue (total_batches
\* is not incremented) and ends
Residue(f) ==
  /\ batchq' = [batchq EXCEPT ![f] = IF acc[f] > 0 THEN Append(@, acc[f]) ELSE @]
  /\ acc' = [acc EXCEPT ![f] = 0]
  /\ batches' = [batches EXCEPT ![f] = 0]

\* the parser reaches the end of the file and drops its sender
ParseEof(f) ==
  /\ pipe[f] = "running"
  /\ parser[f] = "run"
  /\ recs[f] = FileRecords[f]
  /\ parser' = [parser EXCEPT ![f] = "eof"]
  /\ Residue(f)
  /\ UNCHANGED <<ctl, sig, faults, remote, marker, disk, data_files, pipe,
                 recs, handled, pubd, fcPub, broker, crashlog, lossy,
                 parseErr>>
  /\ UNCHANGED <<writeFailed, error_count, extraction_progress,
                 active_connections>>
  /\ UNCHANGED <<detail, units>>

\* malformed XML or gzip corruption: parse_file returns an error, which
\* process_single_file returns at once; batcher and publisher stay behind
ParseFail(f) ==
  /\ pipe[f] = "running"
  /\ parser[f] = "run"
  /\ faults < MaxFaults
  /\ faults' = faults + 1
  /\ parser' = [parser EXCEPT ![f] = "err"]
  /\ pipe' = [pipe EXCEPT ![f] = "failed"]
  /\ Residue(f)
  /\ parseErr' = parseErr \cup {f}
  /\ UNCHANGED <<ctl, sig, remote, marker, disk, data_files, recs, handled,
                 pubd, fcPub, broker, crashlog, lossy>>
  /\ UNCHANGED <<writeFailed, error_count, extraction_progress,
                 active_connections>>
  /\ UNCHANGED <<detail, units>>

\* batcher: receive timeout with a non-empty batch and more than one second
\* since the last flush
TimeoutFlush(f) ==
  /\ acc[f] > 0
  /\ parser[f] = "run"
  /\ batchq' = [batchq EXCEPT ![f] = Append(@, acc[f])]
  /\ acc' = [acc EXCEPT ![f] = 0]
  /\ batches' = [batches EXCEPT ![f] = @ + 1]
  /\ UNCHANGED <<ctl, sig, faults, remote, marker, disk, data_files,
                 pipe, parser, recs, handled, pubd, fcPub, broker, crashlog,
                 lossy, parseErr>>
  /\ UNCHANGED <<writeFailed, error_count, extraction_progress,
                 active_connections>>
  /\ UNCHANGED <<detail, units>>

\* variant: a failed publish_batch is not counted
ErrorCountUntouched(ok, count) == count

\* message_publisher's match on publish_batch: Err adds one to error_count
ErrorCountAfter(ok, count) == IF ok THEN count ELSE count + 1

\* publisher: publish_batch on the next batch; it acks every message, or it
\* fails after j acked messages and the rest of the batch is dropped
PublishBatch(f) ==
  /\ batchq[f] # <<>>
  /\ LET k == Head(batchq[f]) IN
     \E j \in 0..k :
       /\ j < k => faults < MaxFaults
       /\ faults' = IF j < k THEN faults + 1 ELSE faults
       /\ pubd' = [pubd EXCEPT ![f] = @ + j]
       /\ delivered' = [delivered EXCEPT ![f] =
                          @ \cup ((handled[f] + 1)..(handled[f] + j))]
       /\ handled' = [handled EXCEPT ![f] = @ + k]
       /\ lossy' = IF j < k THEN lossy \cup {f} ELSE lossy
       /\ error_count' = ErrorCountAfter(j = k, error_count)
  /\ batchq' = [batchq EXCEPT ![f] = Tail(@)]
  /\ UNCHANGED <<ctl, sig, remote, marker, disk, data_files, pipe, parser,
                 recs, acc, batches, fcPub, fcEver, crashlog, parseErr>>
  /\ UNCHANGED <<writeFailed, extraction_progress, active_connections>>
  /\ UNCHANGED <<detail, units>>

\* variant: only the parser is awaited before the file is completed
WorkersJoinedParserOnly(f) == parser[f] = "eof"

\* parser_handle, batcher_handle and publisher_handle have all returned Ok
WorkersJoined(f) ==
  /\ parser[f] = "eof"
  /\ acc[f] = 0
  /\ batchq[f] = <<>>

\* s.active_connections.remove(&data_type): reached only when the three
\* workers and the marker save of the completed file have succeeded
ConnectionsAfter(connections, ok, f) ==
  IF ok THEN connections \ {f} ELSE connections

\* the file is marked Completed and the marker saved; the entry of the file
\* in active_connections is removed
CompleteFile(f) ==
  /\ pipe[f] = "running"
  /\ WorkersJoined(f)
  /\ \E ok \in Outcomes :
       /\ Spend(ok)
       /\ marker' = complete_file_processing(marker, f, recs[f])
       /\ disk' = save(marker', ok)
       /\ Wrote(ok)
       /\ pipe' = [pipe EXCEPT ![f] = AfterSave(ok, "completed")]
       /\ active_connections' = ConnectionsAfter(active_connections, ok, f)
  /\ UNCHANGED <<ctl, sig, remote, data_files, workers, fcPub, broker,
                 crashlog, lossy, parseErr>>
  /\ UNCHANGED error_count
  /\ UNCHANGED <<detail, units>>

\* send_file_complete: the FileCompleteMessage is acked, or the publish fails
SendFileComplete(f) ==
  /\ pipe[f] = "completed"
  /\ \E ok \in Outcomes :
       /\ Spend(ok)
       /\ fcPub' = [fcPub EXCEPT ![f] = ok]
       /\ fcEver' = [fcEver EXCEPT ![f] = @ \/ ok]
       /\ pipe' = [pipe EXCEPT ![f] = IF ok THEN "done" ELSE "failed"]
       /\ lossy' = IF ok THEN lossy ELSE lossy \cup {f}
  /\ UNCHANGED <<ctl, sig, remote, marker, disk, data_files, workers,
                 delivered, crashlog, parseErr>>
  /\ UNCHANGED <<writeFailed, error_count, active_connections>>
  /\ UNCHANGED <<detail, units>>

\* every task has been awaited: the processing phase and the extraction are
\* marked completed, the marker is saved and the run returns
FinishRun ==
  /\ pc = "await"
  /\ \A f \in Files : pipe[f] \in {"idle", "done", "failed"}
  /\ \E ok \in Outcomes :
       /\ Spend(ok)
       /\ disk' = save(complete_extraction(complete_processing(marker)), ok)
       /\ Wrote(ok)
       /\ RunEnd(IF ~ok THEN "err"
                 ELSE IF \E f \in Files : pipe[f] = "failed" THEN "fail"
                 ELSE "ok")
  /\ UNCHANGED <<force, sig, remote, pipe, workers, fcPub, broker,
                 crashlog, lossy, parseErr>>
  /\ UNCHANGED <<error_count, active_connections>>
  /\ UNCHANGED <<detail, units>>

(***************************************************************************)
(* run_extraction_loop's periodic select, the shutdown signal, process     *)
(* exit, restart and crash.                                                *)
(***************************************************************************)
\* the sleep of the select elapses: a periodic run starts
TimerFires ==
  /\ pc = "sleep"
  /\ ~notified
  /\ \A f \in Files : acc[f] = 0 /\ batchq[f] = <<>>
  /\ pc' = "start"
  /\ UNCHANGED <<initial, force, sig, faults, remote, marker, disk,
                 data_files, pipe, workers, fcPub, broker, crashlog, lossy,
                 parseErr>>
  /\ UNCHANGED <<writeFailed, error_count, active_connections>>
  /\ UNCHANGED <<detail, units>>

\* ctrl_c: notify_waiters wakes the tasks that wait in notified() now and
\* stores no permit
Signal ==
  /\ ~signalled
  /\ pc \notin {"exit_ok", "exit_err"}
  /\ signalled' = TRUE
  /\ notified' = (pc = "sleep")
  /\ UNCHANGED <<ctl, faults, remote, marker, disk, data_files, pipe,
                 workers, fcPub, broker, crashlog, lossy, parseErr>>
  /\ UNCHANGED <<writeFailed, error_count, active_connections>>
  /\ UNCHANGED <<detail, units>>

\* the notified() branch of the select: the loop breaks and returns Ok
LoopBreak ==
  /\ pc = "sleep"
  /\ notified
  /\ pc' = "exit_ok"
  /\ UNCHANGED <<initial, force, sig, faults, remote, marker,
                 disk, data_files, pipe, workers, fcPub, broker, crashlog,
                 lossy, parseErr>>
  /\ UNCHANGED <<writeFailed, error_count, active_connections>>
  /\ UNCHANGED <<detail, units>>

\* a new process: memory is fresh, the marker file and the broker remain
NewProcess ==
  /\ pc' = "start"
  /\ initial' = TRUE
  /\ force' \in BOOLEAN
  /\ signalled' = FALSE
  /\ notified' = FALSE
  /\ marker' = NewMarker
  /\ data_files' = {}
  /\ IdlePipes
  /\ UNCHANGED <<remote, disk, broker, lossy, parseErr>>
  /\ writeFailed' = FALSE
  /\ UNCHANGED <<detail, units>>

\* the process is started again after it has exited
Restart ==
  /\ pc \in {"exit_ok", "exit_err"}
  /\ NewProcess
  /\ UNCHANGED <<faults, crashlog>>

\* the process is killed at any point and started again
Crash ==
  /\ pc \notin {"exit_ok", "exit_err"}
  /\ faults < MaxFaults
  /\ faults' = faults + 1
  /\ NewProcess
  /\ crashed' = TRUE
  /\ doneAtCrash' = IF disk = <<>> THEN {} ELSE CompletedFiles(disk[1])
  /\ gapAtCrash' = {f \in doneAtCrash' : ~fcEver[f]}

Next ==
  \/ BeginRun
  \/ Download
  \/ Dispatch
  \/ \E f \in Files : StartFile(f)
  \/ \E f \in Files : ParseRecord(f)
  \/ \E f \in Files : ParseEof(f)
  \/ \E f \in Files : ParseFail(f)
  \/ \E f \in Files : TimeoutFlush(f)
  \/ \E f \in Files : PublishBatch(f)
  \/ \E f \in Files : CompleteFile(f)
  \/ \E f \in Files : SendFileComplete(f)
  \/ FinishRun
  \/ TimerFires
  \/ Signal
  \/ LoopBreak
  \/ Restart

Spec == Init /\ [][Next]_vars

NextCrash == Next \/ Crash

SpecCrash == Init /\ [][NextCrash]_vars

(***************************************************************************)
(* The StateMarker on its own: any sequence of its operations on one       *)
(* marker, with arguments from small sets.                                 *)
(***************************************************************************)
\* file names passed to the per-file operations
MarkerFiles == {FileOrder[i] : i \in 1..MaxMarkerFiles}

\* everything but the marker
notMarker == <<pc, initial, force, signalled, notified, faults, remote, disk,
               data_files, pipe, parser, recs, acc, batches, batchq, handled,
               pubd, fcPub, delivered, fcEver, lossy, parseErr, crashed,
               doneAtCrash, gapAtCrash, writeFailed, error_count,
               extraction_progress, active_connections, stage, parsing,
               record_count, rchan, batch, elapsed, batcherDone, bchan, inpub,
               published, fcmsgs, received, sentflat, total_batches, pubfail,
               units>>

MarkerInit == Init /\ remote = Files

MStartDownload ==
  /\ marker' = start_download(marker)
  /\ UNCHANGED notMarker

MFileDownloaded ==
  /\ marker.files_downloaded < MaxMarkerFiles
  /\ marker' = file_downloaded(marker)
  /\ UNCHANGED notMarker

MCompleteDownload ==
  /\ marker' = complete_download(marker)
  /\ UNCHANGED notMarker

MFailDownload ==
  /\ marker' = fail_download(marker)
  /\ UNCHANGED notMarker

MStartProcessing ==
  /\ \E n \in 1..MaxMarkerFiles : marker' = start_processing(marker, n)
  /\ UNCHANGED notMarker

MStartFileProcessing ==
  /\ \E f \in MarkerFiles : marker' = start_file_processing(marker, f)
  /\ UNCHANGED notMarker

MUpdateFileProgress ==
  /\ \E f \in MarkerFiles, r \in 0..MaxRecords, b \in 0..1 :
       marker' = update_file_progress(marker, f, r, r, b)
  /\ UNCHANGED notMarker

MCompleteFileProcessing ==
  /\ marker.files_processed < MaxMarkerFiles
  /\ \E f \in MarkerFiles, r \in 0..MaxRecords :
       marker' = complete_file_processing(marker, f, r)
  /\ UNCHANGED notMarker

MCompleteProcessing ==
  /\ marker' = complete_processing(marker)
  /\ UNCHANGED notMarker

MFailProcessing ==
  /\ marker' = fail_processing(marker)
  /\ UNCHANGED notMarker

MUpdatePublishing ==
  /\ marker.messages_published < MaxRecords
  /\ marker.batches_sent < MaxRecords
  /\ \E k \in 0..1, b \in 0..1 : marker' = update_publishing(marker, k, b)
  /\ UNCHANGED notMarker

MFailPublishing ==
  /\ marker' = fail_publishing(marker)
  /\ UNCHANGED notMarker

MCompleteExtraction ==
  /\ marker' = complete_extraction(marker)
  /\ UNCHANGED notMarker

MarkerNext ==
  \/ MStartDownload
  \/ MFileDownloaded
  \/ MCompleteDownload
  \/ MFailDownload
  \/ MStartProcessing
  \/ MStartFileProcessing
  \/ MUpdateFileProgress
  \/ MCompleteFileProcessing
  \/ MCompleteProcessing
  \/ MFailProcessing
  \/ MUpdatePublishing
  \/ MFailPublishing
  \/ MCompleteExtraction

SpecMarker == MarkerInit /\ [][MarkerNext]_vars

(***************************************************************************)
(* One file pipeline in detail: process_single_file after its workers are  *)
(* spawned, with the record channel, the batcher's accumulator and timer,  *)
(* the batch channel and the publisher.                                    *)
(***************************************************************************)
PipeFile == FileOrder[1]

\* everything the pipeline does not touch
orchestration == <<pc, initial, force, signalled, notified, remote,
                   data_files, pipe, parser, recs, acc, batches, batchq,
                   handled, pubd, fcPub, delivered, fcEver, lossy, parseErr,
                   crashed, doneAtCrash, gapAtCrash, units>>

\* the run has downloaded the file, started the processing phase and the
\* file, and saved the marker
PipeStart ==
  /\ UnitsIdle
  /\ pc = "await"
  /\ initial = TRUE
  /\ force = FALSE
  /\ signalled = FALSE
  /\ notified = FALSE
  /\ remote = {PipeFile}
  /\ marker = start_file_processing(
                start_processing(
                  complete_download(file_downloaded(start_download(NewMarker))),
                  1),
                PipeFile)
  /\ disk = <<marker>>
  /\ data_files = {}
  /\ pipe = [f \in Files |-> IF f = PipeFile THEN "running" ELSE "idle"]
  /\ parser = [f \in Files |-> IF f = PipeFile THEN "run" ELSE "none"]
  /\ recs = Zero /\ acc = Zero /\ batches = Zero /\ handled = Zero
  /\ pubd = Zero
  /\ batchq = [f \in Files |-> <<>>]
  /\ fcPub = None
  /\ error_count = 0
  /\ extraction_progress = ExtractionProgressDefault
  /\ active_connections = {PipeFile}
  /\ delivered = [f \in Files |-> {}]
  /\ fcEver = None
  /\ lossy = {}
  /\ parseErr = {}
  /\ crashed = FALSE
  /\ doneAtCrash = {}
  /\ gapAtCrash = {}
  /\ writeFailed = FALSE
  /\ DetailInit

PipeInit == PipeStart /\ faults = 0

RecordChannelFull == Len(rchan) >= QueueSize

\* variant: the batch channel takes any number of batches
BatchChannelUnbounded == FALSE

BatchChannelFull == Len(bchan) >= BatchChannelCap

\* sq without its i-th element
Without(sq, i) == SubSeq(sq, 1, i - 1) \o SubSeq(sq, i + 1, Len(sq))

\* parse_file sends the next record (it waits while the channel is full)
\* and counts it
PParserSend ==
  /\ parsing = "run"
  /\ record_count < PipeRecords
  /\ ~RecordChannelFull
  /\ rchan' = Append(rchan, record_count + 1)
  /\ record_count' = record_count + 1
  /\ UNCHANGED <<orchestration, active_connections, extraction_progress,
                 faults, marker, disk, writeFailed, error_count, stage,
                 parsing, batch, elapsed, batcherDone, bchan, inpub,
                 published, fcmsgs, received, sentflat, total_batches,
                 pubfail>>

\* parse_file reaches Eof (of a file of any number of records up to
\* PipeRecords) and returns Ok(record_count); its sender is dropped
PParserEof ==
  /\ parsing = "run"
  /\ parsing' = "eof"
  /\ UNCHANGED <<orchestration, active_connections, extraction_progress,
                 faults, marker, disk, writeFailed, error_count, stage,
                 record_count, rchan, batch, elapsed, batcherDone, bchan,
                 inpub, published, fcmsgs, received, sentflat, total_batches,
                 pubfail>>

\* parse_file returns an error: process_single_file returns it, the sender
\* is dropped, batcher and publisher go on detached
PParserFail ==
  /\ parsing = "run"
  /\ faults < MaxFaults
  /\ faults' = faults + 1
  /\ parsing' = "err"
  /\ stage' = "failed"
  /\ UNCHANGED <<orchestration, active_connections, extraction_progress,
                 marker, disk, writeFailed, error_count, record_count, rchan,
                 batch, elapsed, batcherDone, bchan, inpub, published, fcmsgs,
                 received, sentflat, total_batches, pubfail>>

\* variant: the batch is sent once it holds more than batch_size records
BatchFullLate(b) == Len(b) > PipeBatchSize

\* message_batcher's test batch.len() >= batch_size
BatchFull(b) == Len(b) >= PipeBatchSize

\* the batcher sends b on the batch channel: a flush of the main loop counts
\* the batch and restarts the flush timer
Flush(b) ==
  /\ bchan' = Append(bchan, b)
  /\ sentflat' = sentflat \o b
  /\ batch' = <<>>
  /\ total_batches' = total_batches + 1
  /\ elapsed' = FALSE

\* message_batcher receives a record: push, count, periodic marker update
\* and save (a failed save only warns), and the send of a full batch; when
\* the batch channel is full the batcher waits in send with the full batch
PBatcherRecv ==
  /\ ~batcherDone
  /\ rchan # <<>>
  /\ ~BatchFull(batch)
  /\ LET nb == Append(batch, Head(rchan))
         n == Len(received) + 1
         saving == n % PipeSaveInterval = 0
     IN  /\ rchan' = Tail(rchan)
         /\ received' = Append(received, Head(rchan))
         /\ extraction_progress' = increment(extraction_progress, PipeFile)
         /\ \E ok \in Outcomes :
              /\ saving \/ ok
              /\ Spend(ok)
              /\ Wrote(ok)
              /\ marker' = IF saving
                           THEN update_file_progress(marker, PipeFile, n, n,
                                                     total_batches)
                           ELSE marker
              /\ disk' = IF saving THEN save(marker', ok) ELSE disk
         /\ IF BatchFull(nb) /\ ~BatchChannelFull
            THEN Flush(nb)
            ELSE /\ batch' = nb
                 /\ UNCHANGED <<bchan, sentflat, total_batches, elapsed>>
  /\ UNCHANGED <<orchestration, active_connections, error_count, stage,
                 parsing, record_count, batcherDone, inpub, published, fcmsgs,
                 pubfail>>

\* the send of a full batch that waited for room in the batch channel
PBatcherSend ==
  /\ ~batcherDone
  /\ BatchFull(batch)
  /\ ~BatchChannelFull
  /\ Flush(batch)
  /\ UNCHANGED <<orchestration, active_connections, extraction_progress,
                 faults, marker, disk, writeFailed, error_count, stage,
                 parsing, record_count, rchan, batcherDone, inpub, published,
                 fcmsgs, received, pubfail>>

\* one second passes without a flush
PTick ==
  /\ ~batcherDone
  /\ ~elapsed
  /\ elapsed' = TRUE
  /\ UNCHANGED <<orchestration, active_connections, extraction_progress,
                 faults, marker, disk, writeFailed, error_count, stage,
                 parsing, record_count, rchan, batch, batcherDone, bchan,
                 inpub, published, fcmsgs, received, sentflat, total_batches,
                 pubfail>>

\* the receive times out (no record for 100 ms on the open channel): the
\* batcher flushes a non-empty batch when more than one second has passed
\* since the last flush
PBatcherTimeout ==
  /\ ~batcherDone
  /\ rchan = <<>>
  /\ parsing = "run"
  /\ batch # <<>>
  /\ ~BatchFull(batch)
  /\ elapsed
  /\ ~BatchChannelFull
  /\ Flush(batch)
  /\ UNCHANGED <<orchestration, active_connections, extraction_progress,
                 faults, marker, disk, writeFailed, error_count, stage,
                 parsing, record_count, rchan, batcherDone, inpub, published,
                 fcmsgs, received, pubfail>>

\* variant: the batcher does not see that the record channel is closed
RecordChannelNeverClosed == FALSE

\* parse_sender is dropped: parse_file has returned
RecordChannelClosed == parsing # "run"

\* the record channel is closed and drained: the batcher sends what is left
\* (not counted in total_batches) and returns
PBatcherClose ==
  /\ ~batcherDone
  /\ rchan = <<>>
  /\ RecordChannelClosed
  /\ ~BatchFull(batch)
  /\ batch # <<>> => ~BatchChannelFull
  /\ bchan' = IF batch # <<>> THEN Append(bchan, batch) ELSE bchan
  /\ sentflat' = sentflat \o batch
  /\ batch' = <<>>
  /\ batcherDone' = TRUE
  /\ UNCHANGED <<orchestration, active_connections, extraction_progress,
                 faults, marker, disk, writeFailed, error_count, stage,
                 parsing, record_count, rchan, elapsed, inpub, published,
                 fcmsgs, received, total_batches, pubfail>>

\* message_publisher receives the next batch from the batch channel
PPublisherTake ==
  /\ inpub = <<>>
  /\ bchan # <<>>
  /\ inpub' = Head(bchan)
  /\ bchan' = Tail(bchan)
  /\ UNCHANGED <<orchestration, active_connections, extraction_progress,
                 faults, marker, disk, writeFailed, error_count, stage,
                 parsing, record_count, rchan, batch, elapsed, batcherDone,
                 published, fcmsgs, received, sentflat, total_batches,
                 pubfail>>

\* publish_batch on the received batch: every message is acked; or the
\* publish or its confirmation fails after j messages, the rest of the batch
\* is dropped and the publisher counts one error; or the broker nacks
\* message i, which is only logged
PPublisherPublish ==
  /\ inpub # <<>>
  /\ \/ /\ published' = published \o inpub
        /\ UNCHANGED <<faults, error_count, pubfail>>
     \/ /\ faults < MaxFaults
        /\ faults' = faults + 1
        /\ \E j \in 0..(Len(inpub) - 1) :
             published' = published \o SubSeq(inpub, 1, j)
        /\ error_count' = ErrorCountAfter(FALSE, error_count)
        /\ pubfail' = TRUE
     \/ /\ faults < MaxFaults
        /\ faults' = faults + 1
        /\ \E i \in 1..Len(inpub) :
             published' = published \o Without(inpub, i)
        /\ error_count' = ErrorCountAfter(TRUE, error_count)
        /\ pubfail' = TRUE
  /\ inpub' = <<>>
  /\ UNCHANGED <<orchestration, active_connections, extraction_progress,
                 marker, disk, writeFailed, stage, parsing, record_count,
                 rchan, batch, elapsed, batcherDone, bchan, fcmsgs, received,
                 sentflat, total_batches>>

\* variant: only the parser is awaited
PipeJoinedParserOnly == parsing = "eof"

\* parser_handle, batcher_handle and publisher_handle have returned Ok
PipeJoined ==
  /\ parsing = "eof"
  /\ batcherDone
  /\ bchan = <<>>
  /\ inpub = <<>>

\* the three workers have returned Ok: the file is marked Completed with the
\* parser's count and the marker saved
PComplete ==
  /\ stage = "workers"
  /\ PipeJoined
  /\ \E ok \in Outcomes :
       /\ Spend(ok)
       /\ marker' = complete_file_processing(marker, PipeFile, record_count)
       /\ disk' = save(marker', ok)
       /\ Wrote(ok)
       /\ stage' = AfterSave(ok, "completed")
       /\ active_connections' =
            ConnectionsAfter(active_connections, ok, PipeFile)
  /\ UNCHANGED <<orchestration, extraction_progress, error_count, parsing,
                 record_count, rchan, batch, elapsed, batcherDone, bchan,
                 inpub, published, fcmsgs, received, sentflat, total_batches,
                 pubfail>>

\* send_file_complete with the parser's count; a failed publish fails the
\* file task
PSendFileComplete ==
  /\ stage = "completed"
  /\ \E ok \in Outcomes :
       /\ Spend(ok)
       /\ fcmsgs' = IF ok THEN Append(fcmsgs, record_count) ELSE fcmsgs
       /\ stage' = IF ok THEN "done" ELSE "failed"
  /\ UNCHANGED <<orchestration, active_connections, extraction_progress,
                 marker, disk, writeFailed, error_count, parsing,
                 record_count, rchan, batch, elapsed, batcherDone, bchan,
                 inpub, published, received, sentflat, total_batches,
                 pubfail>>

\* records of the file held between parser and broker: in the record
\* channel, in the batcher, in the batch channel and in the publisher
RECURSIVE Held(_)
Held(ch) == IF ch = <<>> THEN 0 ELSE Len(Head(ch)) + Held(Tail(ch))

InFlight == Len(rchan) + Len(batch) + Held(bchan) + Len(inpub)

PipeNext ==
  \/ PParserSend
  \/ PParserEof
  \/ PParserFail
  \/ PBatcherRecv
  \/ PBatcherSend
  \/ PTick
  \/ PBatcherTimeout
  \/ PBatcherClose
  \/ PPublisherTake
  \/ PPublisherPublish
  \/ PComplete
  \/ PSendFileComplete

SpecPipe == PipeInit /\ [][PipeNext]_vars

\* the tokio runtime runs every task that can make a step, the file is
\* finite and the broker answers: the parser reaches the end of the file,
\* and the batcher, the publisher and process_single_file take the step
\* they are ready for
PipeFairness ==
  /\ WF_vars(PParserEof)
  /\ WF_vars(PBatcherRecv \/ PBatcherSend \/ PBatcherClose)
  /\ WF_vars(PPublisherTake \/ PPublisherPublish)
  /\ WF_vars(PComplete \/ PSendFileComplete)

\* a well-formed file, a disk that takes every write and a broker that acks
\* every publish: no failure is left to inject
PipeLiveInit == PipeStart /\ faults = MaxFaults

PipeLiveNext ==
  \/ PParserSend
  \/ PParserEof
  \/ PBatcherRecv
  \/ PBatcherSend
  \/ PTick
  \/ PBatcherTimeout
  \/ PBatcherClose
  \/ PPublisherTake
  \/ PPublisherPublish
  \/ PComplete
  \/ PSendFileComplete

SpecPipeLive == PipeLiveInit /\ [][PipeLiveNext]_vars /\ PipeFairness

(***************************************************************************)
(* Functions checked on their own: each action calls one function on        *)
(* arguments drawn in UnitInit.                                            *)
(***************************************************************************)
\* everything but the arguments and results of these functions
program == <<tasking, pc, initial, force, signalled, notified, faults, remote, marker,
             disk, data_files, pipe, parser, recs, acc, batches, batchq,
             handled, pubd, fcPub, delivered, fcEver, lossy, parseErr,
             crashed, doneAtCrash, gapAtCrash, writeFailed, error_count,
             extraction_progress, active_connections, detail>>

\* version tokens: the second '_'-separated part of a file name, compared
\* as strings (digit sequences here)
Versions == {<<1, 2>>, <<2>>}

\* lexicographic order of two tokens, as String::cmp
RECURSIVE LexLess(_, _)
LexLess(a, b) ==
  IF b = <<>> THEN FALSE
  ELSE IF a = <<>> THEN TRUE
  ELSE IF Head(a) # Head(b) THEN Head(a) < Head(b)
  ELSE LexLess(Tail(a), Tail(b))

\* what follows the version in a file name: a data file <type>.xml.gz,
\* CHECKSUM.txt, or some other file that does not end in .xml.gz
Kinds == Files \cup {"CHECKSUM", "other"}

\* f.name.ends_with(".xml.gz")
EndsWithXmlGz(e) == e[2] \in Files

\* ids.entry(id).or_default().push(file)
Group(files, id) == {e \in files : e[1] = id}

\* the tests of the loop body: five entries, four of them ending in .xml.gz
Taken(files, id) ==
  /\ Cardinality(Group(files, id)) = 5
  /\ Cardinality({e \in Group(files, id) : EndsWithXmlGz(e)}) = 4

\* Downloader::get_latest_monthly_files: the .xml.gz entries of the first
\* group taken, going through the ids in descending order
get_latest_monthly_files(files) ==
  LET ids == {e[1] : e \in files}
      taken == {id \in ids : Taken(files, id)}
  IN  IF taken = {} THEN {}
      ELSE LET id == CHOOSE i \in taken :
                       \A j \in taken : j = i \/ LexLess(j, i)
           IN  {e \in Group(files, id) : EndsWithXmlGz(e)}

\* SHA-256 values and file sizes: MaxDigest and MaxSize different ones
Digests == 1..MaxDigest
Sizes == 1..MaxSize

\* the cases of should_download: the remote size (0 when the listing was
\* scraped), the local file and its SHA-256, the metadata entry of the file
FileInfos ==
  {[exists |-> e, sha |-> IF e THEN h ELSE 0, meta |-> m, size |-> z] :
     e \in BOOLEAN, h \in Digests, z \in {0} \cup Sizes,
     m \in {<<>>} \cup {<<[checksum |-> c, size |-> y]>> :
                           c \in Digests, y \in Sizes}}

\* Downloader::should_download
should_download(fi) ==
  IF ~fi.exists THEN TRUE
  ELSE IF fi.meta # <<>>
       THEN IF fi.sha # fi.meta[1].checksum THEN TRUE ELSE FALSE
       ELSE TRUE

\* what can happen to a selected file in the loop of download_discogs_data:
\* should_download fails, the file is up to date, download_file succeeds,
\* download_file fails
FileCases == {"verify_err", "cached", "fetch_ok", "fetch_fail"}

\* variant: a failed download_file ends download_discogs_data with its error
DownloadErrorReturned(d) == [d EXCEPT !.result = <<"Err">>]

\* the Err(e) arm of the match on download_file: the error is logged
DownloadErrorLogged(d) == d

\* one pass of the loop body for file f
download_step(d, f, case) ==
  LET t == [d EXCEPT !.pos = @ + 1, !.tried = Append(@, f)]
  IN  IF case = "verify_err" THEN [t EXCEPT !.result = <<"Err">>]
      ELSE IF case = "fetch_fail" THEN DownloadErrorLogged(t)
      ELSE [t EXCEPT !.downloaded_files = Append(@, f)]

\* MessageQueue::connect on entry: retry_count = 0, backoff = 1 s
connect_entry(max_retries) ==
  [max_retries |-> max_retries, retry_count |-> 0,
   backoff |-> InitialBackoff, attempts |-> 0, slept |-> <<>>,
   result |-> <<>>]

\* variant: the wait doubles without a cap
NextBackoffUncapped(b) == b * 2

\* backoff = (backoff * 2).min(Duration::from_secs(30))
NextBackoff(b) == IF b * 2 < BackoffCap THEN b * 2 ELSE BackoffCap

\* one turn of the loop of connect, ok being the result of try_connect
connect_turn(c, ok) ==
  LET tried == [c EXCEPT !.attempts = @ + 1]
  IN  IF ok THEN [tried EXCEPT !.result = <<"Ok">>]
      ELSE IF c.retry_count + 1 >= c.max_retries
      THEN [tried EXCEPT !.retry_count = @ + 1, !.result = <<"Err">>]
      ELSE [tried EXCEPT !.retry_count = @ + 1,
                         !.slept = Append(@, c.backoff),
                         !.backoff = NextBackoff(@)]

\* what the broker does with a message: it acks it, it nacks it, or the
\* publish or its confirmation fails
Reply == {"ack", "nack", "error"}
Replies == UNION {[1..n -> Reply] : n \in 0..MaxBatch}

\* MessageQueue::publish of one message: get_channel, then the broker's reply
publish(channel, reply) ==
  IF ~channel THEN "Err"
  ELSE IF reply = "error" THEN "Err"
  ELSE IF reply # "ack" THEN "Err"
  ELSE "Ok"

\* variant: a nack ends publish_batch with an error
BatchNackFails(res) == [res EXCEPT !.result = "Err"]

\* publish_batch on a message that is not acked: warn!
BatchNackWarned(res) == [res EXCEPT !.warned = @ + 1]

\* the loop of publish_batch from message i on
RECURSIVE publish_batch_from(_, _, _)
publish_batch_from(replies, i, res) ==
  IF res.result = "Err" \/ i > Len(replies) THEN res
  ELSE IF replies[i] = "error" THEN [res EXCEPT !.result = "Err"]
  ELSE LET sent == [res EXCEPT !.sent = @ + 1]
       IN  publish_batch_from(
             replies, i + 1,
             IF replies[i] = "ack"
             THEN [sent EXCEPT !.acked = Append(@, i)]
             ELSE BatchNackWarned(sent))

\* MessageQueue::publish_batch: the result, the messages handed to the
\* broker, the messages acked and the warnings
publish_batch(channel, replies) ==
  IF ~channel
  THEN [result |-> "Err", sent |-> 0, acked |-> <<>>, warned |-> 0]
  ELSE publish_batch_from(
         replies, 1,
         [result |-> "Ok", sent |-> 0, acked |-> <<>>, warned |-> 0])

\* JSON values of the parser: a string, an object, null
JString(v) == <<"string", v>>
JObject(f) == <<"object", f>>
JNull == <<"null">>

\* attribute values and texts: two different strings
Texts == {"1", "2"}
\* attributes of the element: names to strings
AttrNames == {"id", "name"}
Attributes == UNION {[d -> Texts] : d \in SUBSET AttrNames}
\* children of the element: an id or title child holding a text, or holding
\* something else (nested elements, several children of that name)
ChildNames == {"id", "title"}
ChildValues ==
  {JString(v) : v \in Texts} \cup {JObject([name |-> JString("1")])}
Children == UNION {[d -> ChildValues] : d \in SUBSET ChildNames}

\* format!("@{}", key)
AtKey == [id |-> "@id", name |-> "@name"]

\* ElementContext::to_value for an element without text: attributes under
\* their @ keys, then the children
to_value(attributes, children) ==
  LET keys == {AtKey[k] : k \in DOMAIN attributes} \cup DOMAIN children
      result == [k \in keys |->
                   IF k \in DOMAIN children THEN children[k]
                   ELSE JString(attributes[CHOOSE a \in DOMAIN attributes :
                                             AtKey[a] = k])]
  IN  IF keys = {} THEN JNull ELSE JObject(result)

\* obj.get(key).and_then(|v| v.as_str()): the string, or nothing
as_str(obj, key) ==
  IF key \in DOMAIN obj /\ obj[key][1] = "string" THEN <<obj[key][2]>>
  ELSE <<>>

\* calculate_record_hash: SHA-256 of the serialised value; equal values have
\* equal hashes and different values different ones
calculate_record_hash(value) == <<"sha256", value>>

\* .unwrap_or("unknown")
unwrap_or_unknown(opt) == IF opt = <<>> THEN "unknown" ELSE opt[1]

\* the Event::Empty arm for a target element at depth 2: the messages sent
emit_self_closing(data_type, attributes) ==
  LET record == to_value(attributes, <<>>)
  IN  IF record[1] = "object"
      THEN <<[id |-> unwrap_or_unknown(as_str(record[2], "id")),
              sha256 |-> calculate_record_hash(record),
              data |-> record]>>
      ELSE <<>>

\* the id looked up under id first and under @id second
record_id_child_first(obj) ==
  unwrap_or_unknown(IF "id" \in DOMAIN obj THEN as_str(obj, "id")
                    ELSE as_str(obj, "@id"))

\* obj.get("@id").or_else(|| obj.get("id")).and_then(|v| v.as_str())
\*    .unwrap_or("unknown")
record_id(obj) ==
  unwrap_or_unknown(IF "@id" \in DOMAIN obj THEN as_str(obj, "@id")
                    ELSE as_str(obj, "id"))

\* the Event::End arm for a target element at depth 2: the messages sent
emit_at_end(data_type, attributes, children) ==
  LET element_value == to_value(attributes, children)
  IN  IF element_value[1] = "object"
      THEN LET obj == element_value[2]
               id == record_id(obj)
               final_obj ==
                 IF /\ data_type \in {"releases", "masters"}
                    /\ "@id" \in DOMAIN obj
                    /\ "id" \notin DOMAIN obj
                 THEN [k \in DOMAIN obj \cup {"id"} |->
                         IF k = "id" THEN JString(id) ELSE obj[k]]
                 ELSE obj
           IN  <<[id |-> id,
                  sha256 |-> calculate_record_hash(JObject(final_obj)),
                  data |-> JObject(final_obj)]>>
      ELSE <<>>

\* serde_json::Value::Array
JArray(items) == <<"array", items>>

\* ElementContext::new with the attributes of the tag
NewContext(attributes) == [attributes |-> attributes, children |-> <<>>]

\* ElementContext::add_child: a second child of a name turns the entry into
\* an array, further ones are pushed
add_child(context, child_name, child_value) ==
  LET c == context.children
  IN  [context EXCEPT !.children =
         [k \in DOMAIN c \cup {child_name} |->
            IF k # child_name THEN c[k]
            ELSE IF child_name \notin DOMAIN c THEN child_value
            ELSE IF c[k][1] = "array"
                 THEN JArray(Append(c[k][2], child_value))
                 ELSE JArray(<<c[k], child_value>>)]]

\* the match on self.data_type that gives target_element
target_element ==
  [artists |-> "artist", labels |-> "label", masters |-> "master",
   releases |-> "release"]

\* element names of the documents: the name of the records and another one
TagNames(data_type) == {target_element[data_type], "sublabels"}
\* the attributes of a tag: none, or an id
TagAttributes == {<<>>, [id |-> "1"]}

\* the document read so far: the open elements (name, number of the start
\* tag, whether it has an attribute or a child so far), the tags read, the
\* records read so far at depth 2 (all of them, and those with an attribute
\* or a child), and whether the receiver of the channel has been dropped
DocumentStart ==
  [open |-> <<>>, tags |-> 0, records |-> <<>>, filled |-> <<>>,
   dropped |-> FALSE]

\* parse_file before its loop; emitted is the number of the start tag of
\* each record sent
parse_file_entry(data_type) ==
  [data_type |-> data_type, depth |-> 0, in_target_element |-> FALSE,
   element_stack |-> <<>>, record_count |-> 0, sent |-> <<>>,
   emitted |-> <<>>, result |-> <<>>]

\* variant: a closed channel is an error of parse_file
ReceiverDroppedIsError(p) == [p EXCEPT !.result = <<"Err">>]

\* self.sender.send(message).await.is_err(): warn and break, after which
\* parse_file returns Ok(record_count)
ReceiverDropped(p) == [p EXCEPT !.result = <<"Ok", p.record_count>>]

\* the send of the messages of a record (none or one) whose start tag was
\* tag number n, and record_count += 1
send_record(p, messages, n, dropped) ==
  IF messages = <<>> THEN p
  ELSE IF dropped THEN ReceiverDropped(p)
  ELSE [p EXCEPT !.sent = @ \o messages,
                 !.emitted = Append(@, n),
                 !.record_count = @ + 1]

\* variant: a record is recognised at any depth
AtRecordDepthAny(name, target, depth) == name = target

\* name == target_element && depth == 2
AtRecordDepth(name, target, depth) == name = target /\ depth = 2

\* the Event::Start arm
on_start(p, name, attributes) ==
  LET depth == p.depth + 1
      record == AtRecordDepth(name, target_element[p.data_type], depth)
      in_target == p.in_target_element \/ record
      stack == IF record THEN <<>> ELSE p.element_stack
  IN  [p EXCEPT !.depth = depth,
                !.in_target_element = in_target,
                !.element_stack =
                   IF in_target THEN Append(stack, NewContext(attributes))
                   ELSE stack]

\* the Event::Empty arm for tag number n
on_empty(p, name, attributes, n, dropped) ==
  LET depth == p.depth + 1
  IN  IF AtRecordDepth(name, target_element[p.data_type], depth)
      THEN [send_record(p, emit_self_closing(p.data_type, attributes), n,
                        dropped)
              EXCEPT !.element_stack = <<>>, !.in_target_element = FALSE]
      ELSE IF p.in_target_element /\ p.element_stack # <<>>
      THEN [p EXCEPT !.element_stack[Len(p.element_stack)] =
                        add_child(@, name, to_value(attributes, <<>>))]
      ELSE p

\* the Event::End arm for the element whose start tag was tag number n
on_end(p, name, n, dropped) ==
  IF p.in_target_element /\ p.element_stack # <<>>
  THEN LET context == p.element_stack[Len(p.element_stack)]
           rest == SubSeq(p.element_stack, 1, Len(p.element_stack) - 1)
           popped == [p EXCEPT !.element_stack = rest, !.depth = @ - 1]
       IN  IF AtRecordDepth(name, target_element[p.data_type], p.depth)
           THEN [send_record(popped,
                             emit_at_end(p.data_type, context.attributes,
                                         context.children),
                             n, dropped)
                   EXCEPT !.in_target_element = FALSE]
           ELSE IF rest # <<>>
           THEN [popped EXCEPT !.element_stack[Len(rest)] =
                   add_child(@, name,
                             to_value(context.attributes, context.children))]
           ELSE popped
  ELSE [p EXCEPT !.depth = @ - 1]

\* the data types whose pipelines the reporter watches here
Watched == {"artists", "labels"}

\* Instant::now().elapsed().as_secs_f64(): the time since an Instant that was
\* just created, in microseconds
FreshElapsed == 0..MaxFresh

\* names of the data files: discogs_<version>_<type>.xml.gz
DataFile(version, data_type) == <<"discogs", version, data_type>>

\* progress_reporter and the shared state at the start of a run: clock is
\* the time in seconds, received the time at which the batcher received the
\* last record of a type, completed the types whose file has completed
ReporterStart ==
  [report_count |-> 0, clock |-> 0, received |-> <<>>, completed |-> {},
   last_extraction_time |-> <<>>, completed_files |-> {},
   woke |-> FALSE, stalled |-> {}]

\* the sleep of the reporter before its next report
interval(report_count) ==
  IF report_count < ShortReports THEN ShortInterval ELSE LongInterval

\* the loop over last_extraction_time in progress_reporter
stalled_extractors(r, current_time) ==
  {d \in DOMAIN r.last_extraction_time :
     /\ DataFile("*", d) \notin r.completed_files
     /\ r.last_extraction_time[d] > 0
     /\ current_time - r.last_extraction_time[d]
          > StallSeconds * MicrosPerSecond}

\* one function is called on drawn arguments
UnitInit ==
  /\ ProgramInit
  /\ TasksIdle
  /\ remote = Files
  /\ latest = NotCalled
  /\ stale = NotCalled
  /\ dl = LoopStart
  /\ single = NotCalled
  /\ batched = NotCalled
  /\ selfclosed = NotCalled
  /\ paired = NotCalled
  /\ \/ /\ listing \in SUBSET (Versions \X Kinds)
        /\ file_info = NoFile
        /\ plan = <<>>
        /\ conn = <<>>
        /\ link = <<>>
        /\ element = <<>>
        /\ xml = <<>>
        /\ pfile = <<>>
        /\ reporter = <<>>
     \/ /\ listing = {}
        /\ file_info \in FileInfos
        /\ plan = <<>>
        /\ conn = <<>>
        /\ link = <<>>
        /\ element = <<>>
        /\ xml = <<>>
        /\ pfile = <<>>
        /\ reporter = <<>>
     \/ /\ listing = {}
        /\ file_info = NoFile
        /\ plan = <<>>
        /\ conn = <<>>
        /\ link \in {<<[channel |-> ch, replies |-> r]>> :
                       ch \in BOOLEAN, r \in Replies}
        /\ element = <<>>
        /\ xml = <<>>
        /\ pfile = <<>>
        /\ reporter = <<>>
     \/ /\ listing = {}
        /\ file_info = NoFile
        /\ plan = <<>>
        /\ conn = <<>>
        /\ link = <<>>
        /\ element \in {<<[data_type |-> t, attributes |-> a,
                            children |-> c]>> :
                          t \in Files, a \in Attributes, c \in Children}
        /\ xml = <<>>
        /\ pfile = <<>>
        /\ reporter = <<>>
     \/ /\ listing = {}
        /\ file_info = NoFile
        /\ plan = <<>>
        /\ conn = <<>>
        /\ link = <<>>
        /\ element = <<>>
        /\ xml = <<DocumentStart>>
        /\ pfile \in {<<parse_file_entry(t)>> : t \in Files}
        /\ reporter = <<>>
     \/ /\ listing = {}
        /\ file_info = NoFile
        /\ plan = <<>>
        /\ conn = <<>>
        /\ link = <<>>
        /\ element = <<>>
        /\ xml = <<>>
        /\ pfile = <<>>
        /\ reporter = <<ReporterStart>>
     \/ /\ listing = {}
        /\ file_info = NoFile
        /\ plan \in {<<[cases |-> c, metadata_saved |-> b]>> :
                       c \in [Files -> FileCases], b \in BOOLEAN}
        /\ conn = <<>>
        /\ link = <<>>
        /\ element = <<>>
        /\ xml = <<>>
        /\ pfile = <<>>
        /\ reporter = <<>>
     \/ /\ listing = {}
        /\ file_info = NoFile
        /\ plan = <<>>
        /\ conn \in {<<connect_entry(n)>> : n \in 0..MaxRetries}
        /\ link = <<>>
        /\ element = <<>>
        /\ xml = <<>>
        /\ pfile = <<>>
        /\ reporter = <<>>

UGetLatestMonthlyFiles ==
  /\ latest = NotCalled
  /\ file_info = NoFile
  /\ plan = <<>>
  /\ conn = <<>>
  /\ link = <<>>
  /\ element = <<>>
  /\ xml = <<>>
  /\ reporter = <<>>
  /\ latest' = Returned(get_latest_monthly_files(listing))
  /\ UNCHANGED <<program, listing, file_info, stale, plan, dl, conn, link,
                 single, batched, element, selfclosed, paired, xml, pfile,
                 reporter>>

UShouldDownload ==
  /\ stale = NotCalled
  /\ file_info # NoFile
  /\ stale' = Returned(should_download(file_info))
  /\ UNCHANGED <<program, listing, latest, file_info, plan, dl, conn, link,
                 single, batched, element, selfclosed, paired, xml, pfile,
                 reporter>>

\* download_discogs_data: the loop body for the next of the selected files
UDownloadFile ==
  /\ plan # <<>>
  /\ dl.result = <<>>
  /\ dl.pos <= Len(FileOrder)
  /\ dl' = download_step(dl, FileOrder[dl.pos],
                         plan[1].cases[FileOrder[dl.pos]])
  /\ UNCHANGED <<program, listing, latest, file_info, stale, plan, conn, link,
                 single, batched, element, selfclosed, paired, xml, pfile,
                 reporter>>

\* download_discogs_data after the loop: save_metadata()? and
\* Ok(downloaded_files)
UDownloadReturn ==
  /\ plan # <<>>
  /\ dl.result = <<>>
  /\ dl.pos > Len(FileOrder)
  /\ dl' = [dl EXCEPT !.result = IF plan[1].metadata_saved
                                  THEN <<"Ok", dl.downloaded_files>>
                                  ELSE <<"Err">>]
  /\ UNCHANGED <<program, listing, latest, file_info, stale, plan, conn, link,
                 single, batched, element, selfclosed, paired, xml, pfile,
                 reporter>>

\* MessageQueue::connect: try_connect succeeds or fails
UConnectTurn ==
  /\ conn # <<>>
  /\ conn[1].result = <<>>
  /\ \E ok \in BOOLEAN : conn' = <<connect_turn(conn[1], ok)>>
  /\ UNCHANGED <<program, listing, latest, file_info, stale, plan, dl, link,
                 single, batched, element, selfclosed, paired, xml, pfile,
                 reporter>>

\* MessageQueue::publish on the first message
UPublish ==
  /\ link # <<>>
  /\ link[1].replies # <<>>
  /\ single = NotCalled
  /\ single' = Returned(publish(link[1].channel, link[1].replies[1]))
  /\ UNCHANGED <<program, listing, latest, file_info, stale, plan, dl, conn,
                 link, batched, element, selfclosed, paired, xml, pfile,
                 reporter>>

\* MessageQueue::publish_batch on the messages
UPublishBatch ==
  /\ link # <<>>
  /\ batched = NotCalled
  /\ batched' = Returned(publish_batch(link[1].channel, link[1].replies))
  /\ UNCHANGED <<program, listing, latest, file_info, stale, plan, dl, conn,
                 link, single, element, selfclosed, paired, xml, pfile,
                 reporter>>

\* parse_file on the element written as a self-closing tag (no body)
UParseSelfClosing ==
  /\ element # <<>>
  /\ DOMAIN element[1].children = {}
  /\ selfclosed = NotCalled
  /\ selfclosed' = Returned(emit_self_closing(element[1].data_type,
                                               element[1].attributes))
  /\ UNCHANGED <<program, listing, latest, file_info, stale, plan, dl, conn,
                 link, single, batched, element, paired, xml, pfile,
                 reporter>>

\* parse_file on the element written as a start tag, its children and an
\* end tag
UParsePair ==
  /\ element # <<>>
  /\ paired = NotCalled
  /\ paired' = Returned(emit_at_end(element[1].data_type,
                                     element[1].attributes,
                                     element[1].children))
  /\ UNCHANGED <<program, listing, latest, file_info, stale, plan, dl, conn,
                 link, single, batched, element, selfclosed, xml, pfile,
                 reporter>>

\* the element that is open gets a child
WithChild(open) ==
  IF open = <<>> THEN open ELSE [open EXCEPT ![Len(open)].filled = TRUE]

\* parse_file reads a start tag
UStartTag ==
  /\ pfile # <<>>
  /\ pfile[1].result = <<>>
  /\ xml[1].tags < MaxTags
  /\ \E name \in TagNames(pfile[1].data_type), a \in TagAttributes :
       /\ pfile' = <<on_start(pfile[1], name, a)>>
       /\ xml' = <<[xml[1] EXCEPT
                      !.tags = @ + 1,
                      !.open = Append(WithChild(@),
                                      [name |-> name, tag |-> xml[1].tags + 1,
                                       filled |-> a # <<>>])]>>
  /\ UNCHANGED <<program, listing, latest, file_info, stale, plan, dl, conn,
                 link, single, batched, element, selfclosed, paired,
                 reporter>>

\* the records read at depth 2 after an element of that name ends whose
\* start tag was tag number n
RecordsAfter(seen, name, depth, n) ==
  IF name = target_element[pfile[1].data_type] /\ depth = 2
  THEN Append(seen, n) ELSE seen

\* parse_file reads a self-closing tag
UEmptyTag ==
  /\ pfile # <<>>
  /\ pfile[1].result = <<>>
  /\ xml[1].tags < MaxTags
  /\ \E name \in TagNames(pfile[1].data_type), a \in TagAttributes :
       LET n == xml[1].tags + 1
           depth == Len(xml[1].open) + 1
       IN  /\ pfile' = <<on_empty(pfile[1], name, a, n, xml[1].dropped)>>
           /\ xml' = <<[xml[1] EXCEPT
                          !.tags = n,
                          !.open = WithChild(@),
                          !.records = RecordsAfter(@, name, depth, n),
                          !.filled = IF a # <<>>
                                     THEN RecordsAfter(@, name, depth, n)
                                     ELSE @]>>
  /\ UNCHANGED <<program, listing, latest, file_info, stale, plan, dl, conn,
                 link, single, batched, element, selfclosed, paired,
                 reporter>>

\* parse_file reads the end tag of the innermost open element
UEndTag ==
  /\ pfile # <<>>
  /\ pfile[1].result = <<>>
  /\ xml[1].open # <<>>
  /\ LET depth == Len(xml[1].open)
         e == xml[1].open[depth]
     IN  /\ pfile' = <<on_end(pfile[1], e.name, e.tag, xml[1].dropped)>>
         /\ xml' = <<[xml[1] EXCEPT
                        !.open = SubSeq(@, 1, depth - 1),
                        !.records = RecordsAfter(@, e.name, depth, e.tag),
                        !.filled = IF e.filled
                                   THEN RecordsAfter(@, e.name, depth, e.tag)
                                   ELSE @]>>
  /\ UNCHANGED <<program, listing, latest, file_info, stale, plan, dl, conn,
                 link, single, batched, element, selfclosed, paired,
                 reporter>>

\* parse_file reads Event::Eof at the end of the document and returns
\* Ok(record_count)
UEof ==
  /\ pfile # <<>>
  /\ pfile[1].result = <<>>
  /\ xml[1].open = <<>>
  /\ xml[1].tags > 0
  /\ pfile' = <<[pfile[1] EXCEPT !.result = <<"Ok", pfile[1].record_count>>]>>
  /\ UNCHANGED <<program, listing, latest, file_info, stale, plan, dl, conn,
                 link, single, batched, element, selfclosed, paired, xml,
                 reporter>>

\* the receiving end of the record channel is dropped while parse_file runs
UReceiverDrop ==
  /\ pfile # <<>>
  /\ pfile[1].result = <<>>
  /\ ~xml[1].dropped
  /\ xml' = <<[xml[1] EXCEPT !.dropped = TRUE]>>
  /\ UNCHANGED <<program, listing, latest, file_info, stale, plan, dl, conn,
                 link, single, batched, element, selfclosed, paired, pfile,
                 reporter>>

\* message_batcher receives a record of type d: last_extraction_time is set
URecordReceived ==
  /\ reporter # <<>>
  /\ \E d \in Watched \ reporter[1].completed, t \in FreshElapsed :
       reporter' =
         <<[reporter[1] EXCEPT
              !.received = [k \in DOMAIN @ \cup {d} |->
                              IF k = d THEN reporter[1].clock ELSE @[k]],
              !.last_extraction_time =
                 [k \in DOMAIN @ \cup {d} |-> IF k = d THEN t ELSE @[k]],
              !.woke = FALSE]>>
  /\ UNCHANGED <<program, listing, latest, file_info, stale, plan, dl, conn,
                 link, single, batched, element, selfclosed, paired, xml,
                 pfile>>

\* process_single_file has completed the file of type d:
\* completed_files.insert(file_name)
UFileCompleted ==
  /\ reporter # <<>>
  /\ \E d \in Watched \ reporter[1].completed :
       reporter' =
         <<[reporter[1] EXCEPT
              !.completed = @ \cup {d},
              !.completed_files = @ \cup {DataFile("20240101", d)},
              !.woke = FALSE]>>
  /\ UNCHANGED <<program, listing, latest, file_info, stale, plan, dl, conn,
                 link, single, batched, element, selfclosed, paired, xml,
                 pfile>>

\* the sleep of progress_reporter elapses: report_count += 1 and the check
\* for stalled extractors
UReporterWake ==
  /\ reporter # <<>>
  /\ reporter[1].report_count < MaxReports
  /\ \E current_time \in FreshElapsed :
       LET r == [reporter[1] EXCEPT
                   !.clock = @ + interval(reporter[1].report_count),
                   !.report_count = @ + 1]
       IN  reporter' =
             <<[r EXCEPT !.woke = TRUE,
                         !.stalled = stalled_extractors(r, current_time)]>>
  /\ UNCHANGED <<program, listing, latest, file_info, stale, plan, dl, conn,
                 link, single, batched, element, selfclosed, paired, xml,
                 pfile>>

UnitNext ==
  \/ URecordReceived
  \/ UFileCompleted
  \/ UReporterWake
  \/ UStartTag
  \/ UEmptyTag
  \/ UEndTag
  \/ UEof
  \/ UReceiverDrop
  \/ UParseSelfClosing
  \/ UParsePair
  \/ UPublish
  \/ UPublishBatch
  \/ UConnectTurn
  \/ UGetLatestMonthlyFiles
  \/ UShouldDownload
  \/ UDownloadFile
  \/ UDownloadReturn

SpecUnits == UnitInit /\ [][UnitNext]_vars

(***************************************************************************)
(* The ProcessingState-based orchestrator: the file tasks of one run and   *)
(* the file .processing_state.json they share.                             *)
(***************************************************************************)
\* everything but the file tasks
notTasks == <<pc, initial, force, signalled, notified, faults, remote, marker,
              disk, data_files, pipe, parser, recs, acc, batches, batchq,
              handled, pubd, fcPub, delivered, fcEver, lossy, parseErr,
              crashed, doneAtCrash, gapAtCrash, writeFailed, error_count,
              extraction_progress, active_connections, detail, functions>>

\* ProcessingState: the files mapped to true
is_processed(state, file) == file \in state
mark_processed(state, file) == state \cup {file}

\* load_processing_state: the contents of the file, ProcessingState::default
\* when there is none
load_processing_state == processing_state_file

\* process_discogs_data up to the spawn of the file tasks: the files that
\* earlier runs have marked are left out
TaskInit ==
  /\ ProgramInit
  /\ remote = Files
  /\ listing = {} /\ latest = NotCalled /\ file_info = NoFile
  /\ stale = NotCalled /\ plan = <<>> /\ dl = LoopStart /\ conn = <<>>
  /\ link = <<>> /\ single = NotCalled /\ batched = NotCalled
  /\ element = <<>> /\ selfclosed = NotCalled /\ paired = NotCalled
  /\ xml = <<>> /\ pfile = <<>> /\ reporter = <<>>
  /\ processing_state_file \in SUBSET Files
  /\ task = [f \in Files |->
               IF force \/ ~is_processed(load_processing_state, f)
               THEN "spawned" ELSE "skipped"]
  /\ ps = [f \in Files |-> <<>>]

\* the tasks that hold a permit of the semaphore
Permits == {f \in Files : task[f] \in {"running", "processed", "loaded",
                                       "marked"}}

\* semaphore.acquire()
TAcquire(f) ==
  /\ task[f] = "spawned"
  /\ Cardinality(Permits) < SemaphoreWidth
  /\ task' = [task EXCEPT ![f] = "running"]
  /\ UNCHANGED <<notTasks, ps, processing_state_file>>

\* process_single_file(...).await?: an error ends the task
TProcessSingleFile(f) ==
  /\ task[f] = "running"
  /\ \E ok \in BOOLEAN :
       task' = [task EXCEPT ![f] = IF ok THEN "processed" ELSE "failed"]
  /\ UNCHANGED <<notTasks, ps, processing_state_file>>

\* let mut ps = load_processing_state(&processing_state_path).await?
TLoad(f) ==
  /\ task[f] = "processed"
  /\ ps' = [ps EXCEPT ![f] = <<load_processing_state>>]
  /\ task' = [task EXCEPT ![f] = "loaded"]
  /\ UNCHANGED <<notTasks, processing_state_file>>

\* ps.mark_processed(&file)
TMarkProcessed(f) ==
  /\ task[f] = "loaded"
  /\ ps' = [ps EXCEPT ![f] = <<mark_processed(ps[f][1], f)>>]
  /\ task' = [task EXCEPT ![f] = "marked"]
  /\ UNCHANGED <<notTasks, processing_state_file>>

\* save_processing_state(&processing_state_path, &ps).await?: the file is
\* replaced by the task's copy; the task returns Ok and its permit is dropped
TSave(f) ==
  /\ task[f] = "marked"
  /\ processing_state_file' = ps[f][1]
  /\ task' = [task EXCEPT ![f] = "done"]
  /\ UNCHANGED <<notTasks, ps>>

TaskNext ==
  \/ \E f \in Files : TAcquire(f)
  \/ \E f \in Files : TProcessSingleFile(f)
  \/ \E f \in Files : TLoad(f)
  \/ \E f \in Files : TMarkProcessed(f)
  \/ \E f \in Files : TSave(f)

SpecTasks == TaskInit /\ [][TaskNext]_vars

(***************************************************************************)
(* Properties.                                                             *)
(***************************************************************************)
\* the markers of a state: the one in memory and the one in the marker file
MarkerStates == {marker} \cup (IF disk = <<>> THEN {} ELSE {disk[1]})

\* files Completed in the marker file
PersistedCompleted == IF disk = <<>> THEN {} ELSE CompletedFiles(disk[1])

\* C1: whenever the persisted marker has overall_status Completed, every
\* data file of the version has status Completed in it, also after runs in
\* which a download or a file pipeline failed.
C1_CompletedMeansAllFilesCompleted ==
  (disk # <<>> /\ disk[1].overall_status = "Completed")
     => PersistedCompleted = Files

\* C2: a file whose parse failed is not Completed in the persisted marker,
\* and the next non-forced run does not skip: a run that starts while such a
\* file exists goes on to process it instead of returning at should_process.
C2_ParseFailureReprocessed ==
  [][ /\ parseErr \cap PersistedCompleted = {}
      /\ (pc = "start" /\ ~(initial /\ force) /\ parseErr # {}
            /\ faults' = faults)
           => pc' = "download" ]_vars

\* C3: when the process is killed after a file's Completed status was
\* persisted and before its FileCompleteMessage was published, the run of
\* the restarted process publishes the FileCompleteMessage of that file: at
\* the end of that run the broker has it.
C3_FileCompleteAfterCrash ==
  (pc = "sleep" /\ crashed) => \A f \in gapAtCrash : fcEver[f]

\* C4: in every marker state, in memory or persisted, files_processed is
\* the number of progress_by_file entries of status Completed, resumed runs
\* included.
C4_FilesProcessedCountsCompleted ==
  \A m \in MarkerStates : m.files_processed = Cardinality(CompletedFiles(m))

\* C5: in every marker state the aggregates records_extracted,
\* messages_published and batches_sent are the sums of the per-file values
\* of progress_by_file.
C5_AggregatesAreSums ==
  \A m \in MarkerStates :
     /\ m.records_extracted = SumRecords(m)
     /\ m.messages_published = SumMessages(m)
     /\ m.batches_sent = SumBatches(m)

\* C6: resume safety. After a kill and a restart that runs to its end, the
\* broker has, for every file Completed in the marker, every message a
\* single run publishes for it (each DataMessage and the
\* FileCompleteMessage), and the restarted run publishes again only for
\* files that were not Completed at the kill.
C6_ResumeSafety ==
  (pc = "sleep" /\ crashed) =>
     /\ \A f \in PersistedCompleted \ lossy :
           delivered[f] = 1..FileRecords[f] /\ fcEver[f]
     /\ \A f \in doneAtCrash : pubd[f] = 0 /\ ~fcPub[f]

\* C7: once the shutdown signal is received, no file pipeline that has not
\* started yet starts, those waiting for a semaphore permit included.
C7_NoStartAfterShutdown ==
  [][ \A f \in Files :
        (signalled /\ pipe[f] = "waiting") => pipe'[f] \in {"waiting", "idle"}
    ]_vars

\* C8: once the shutdown signal is raised, run_extraction_loop starts no
\* further periodic run, whether the signal came during the sleep or during
\* a run.
C8_NoPeriodicRunAfterShutdown ==
  [][ (signalled /\ pc = "sleep") => pc' # "start" ]_vars

\* C9: a file's FileCompleteMessage is published only when a marker in which
\* the file is Completed is already in the marker file.
C9_CompletedPersistedBeforeFileComplete ==
  [][ \A f \in Files :
        (~fcPub[f] /\ fcPub'[f]) => f \in PersistedCompleted ]_vars

\* a FileCompleteMessage was published for a file persisted as Completed
C9_Witness ==
  \E f \in Files : fcPub[f] /\ f \in PersistedCompleted

\* C10: every DataMessage of a file is published before the file's
\* FileCompleteMessage: no DataMessage of a pipeline is acked once its
\* FileCompleteMessage has been.
C10_DataBeforeFileComplete ==
  [][ \A f \in Files : pubd'[f] > pubd[f] => ~fcPub[f] ]_vars

\* a pipeline published all its DataMessages and then its FileCompleteMessage
C10_Witness ==
  \E f \in Files : fcPub[f] /\ pubd[f] = FileRecords[f] /\ pubd[f] > 1

\* C11: in every marker state reached through the StateMarker operations,
\* overall_status is Failed whenever the download, processing or publishing
\* phase is Failed, and is Completed only if all three phases are Completed.
C11_SummaryFollowsPhases ==
  LET phases == {marker.download_status, marker.processing_status,
                 marker.publishing_status}
  IN  /\ ("Failed" \in phases) => marker.overall_status = "Failed"
      /\ (marker.overall_status = "Completed") => phases = {"Completed"}

\* position of a per-file status on Pending -> InProgress -> Completed|Failed
StatusRank(st) ==
  IF st \in {"Absent", "Pending"} THEN 0
  ELSE IF st = "InProgress" THEN 1
  ELSE 2

\* C12: over any sequence of StateMarker operations on a marker, a file's
\* status only moves forward along Pending -> InProgress -> (Completed |
\* Failed); a Completed file never becomes InProgress or Pending again and
\* its recorded counters are not reset.
C12_FileStatusMonotonic ==
  [][ \A f \in Files :
        LET old == marker.progress_by_file[f]
            new == marker'.progress_by_file[f]
        IN  /\ StatusRank(old.status) <= StatusRank(new.status)
            /\ (old.status = "Completed") =>
                  /\ new.status = "Completed"
                  /\ new.records_extracted >= old.records_extracted
                  /\ new.messages_published >= old.messages_published
                  /\ new.batches_sent >= old.batches_sent ]_vars

\* C13: when a write of the marker file fails (in the download tracking, at
\* a file's start, at a periodic progress save of the batcher or at a file's
\* completion), the run aborts with an error: from then on the run takes no
\* further record and publishes no further message, and it does not end as
\* a successful run.
C13_WriteFailureAbortsRun ==
  [][ /\ writeFailed =>
            \A f \in Files : recs'[f] <= recs[f] /\ pubd'[f] <= pubd[f]
      /\ (initial /\ pc # "sleep" /\ pc' = "sleep") => ~writeFailed' ]_vars

\* C14: every in-memory mutation of the StateMarker is persisted before the
\* marker lock is released: while the file tasks run, whenever the lock is
\* free the marker file holds the in-memory marker.
C14_DiskEqualsMemory ==
  (pc = "await") => disk = <<marker>>

\* C15 (as stated): at every instant the records of one file in the record
\* channel, the batcher's accumulator, the batch channel and the publisher
\* number at most channel_cap + batch_size.
C15_InFlightWithinChannelPlusBatch == InFlight <= QueueSize + PipeBatchSize

\* C15 (amended): the records in flight number at most queue_size +
\* batch_size * (batch channel capacity + 2): a full record channel, a full
\* batch in the batcher, a full batch channel and a batch in the publisher.
C15_InFlightWithinAllBuffers ==
  InFlight <= QueueSize + PipeBatchSize * (BatchChannelCap + 2)

\* every buffer of the pipeline is full at once
C15_Witness ==
  /\ InFlight = QueueSize + PipeBatchSize * (BatchChannelCap + 2)
  /\ Len(rchan) = QueueSize
  /\ Len(bchan) = BatchChannelCap
  /\ Len(inpub) = PipeBatchSize

\* the N records of the file in document order
Document(n) == [i \in 1..n |-> i]

C17_BatchesPartitionInput ==
  /\ sentflat \o batch = received
  /\ batcherDone => sentflat = received
  /\ \A i \in 1..Len(bchan) : Len(bchan[i]) \in 1..PipeBatchSize
  /\ Len(inpub) <= PipeBatchSize
  /\ received = <<>> => bchan = <<>> /\ inpub = <<>> /\ published = <<>>

\* the batcher has returned after full batches and a residue
C17_Witness ==
  /\ batcherDone
  /\ Len(received) > 2 * PipeBatchSize
  /\ Len(received) % PipeBatchSize # 0
  /\ sentflat = received

\* C18: when the accumulator is not empty and more than one second has
\* passed since the last flush, the batcher flushes even though records keep
\* arriving: a receive in that situation ends with the accumulated records
\* sent (or with the batcher sending its full batch).
C18_TimeFlushWhileReceiving ==
  [][ (batch # <<>> /\ elapsed /\ received' # received)
        => (sentflat' # sentflat \/ BatchFull(batch')) ]_vars

\* C19: at no time are more than three executions of process_single_file
\* under way in a run, however many files are pending.
C19_AtMostThreePipelines ==
  Cardinality({f \in Files : pipe[f] \in {"running", "completed"}}) <= 3

\* three files are being processed while a fourth waits for a permit
C19_Witness ==
  /\ Cardinality({f \in Files : pipe[f] \in {"running", "completed"}}) = 3
  /\ \E f \in Files : pipe[f] = "waiting"

C21_CompletedSummarySkips ==
  (marker.overall_status = "Completed") => should_process(marker) = "Skip"

\* C22: when a run spawns its file tasks, the files enqueued are exactly the
\* data files whose entry in the marker is not Completed (a file without an
\* entry is not Completed), on a resumed run in particular; and a task never
\* starts on a file that is Completed in the marker.
C22_OnlyNotCompletedEnqueued ==
  [][ /\ (pc = "dispatch" /\ pc' = "await") =>
           {f \in Files : pipe'[f] = "waiting"} =
             {f \in data_files :
                marker'.progress_by_file[f].status # "Completed"}
      /\ \A f \in Files :
           (pipe[f] = "waiting" /\ pipe'[f] # "waiting") =>
              marker.progress_by_file[f].status # "Completed" ]_vars

\* a resumed run: a file Completed by an earlier run is left out while
\* another file has a task
C22_Witness ==
  /\ pc = "await"
  /\ \E f \in Files :
       /\ pipe[f] = "idle"
       /\ marker.progress_by_file[f].status = "Completed"
  /\ \E g \in Files : pipe[g] \in {"waiting", "running"}

\* C23: when the initial run ends with a failed file pipeline, or ends on a
\* call that returned an error, run_extraction_loop returns an error: the
\* process goes to its exit with a non-zero code and never to the periodic
\* wait; from that exit it does not come back into the loop.
C23_InitialFailureExits ==
  [][ /\ (/\ initial /\ ~initial'
          /\ \/ \E f \in Files : pipe[f] = "failed"
             \/ faults' > faults)
         => pc' = "exit_err"
      /\ (pc = "exit_err") => pc' \notin {"sleep", "download", "dispatch",
                                          "await"} ]_vars

\* the initial run has ended with a failed pipeline and the process exits
C23_Witness ==
  /\ pc = "exit_err"
  /\ \E f \in Files : pipe[f] = "failed"
  /\ \E g \in Files : pipe[g] = "done"

\* C24: get_latest_monthly_files returns the data files (the entries other
\* than the CHECKSUM) of the lexicographically greatest version whose group
\* has exactly five entries including one CHECKSUM entry, and the empty list
\* when no version is complete.
C24_LatestCompleteVersion ==
  (latest # NotCalled) =>
    LET complete ==
          {id \in Versions :
             /\ Cardinality(Group(listing, id)) = 5
             /\ Cardinality({e \in Group(listing, id) :
                                e[2] = "CHECKSUM"}) = 1}
    IN  IF complete = {} THEN latest = Returned({})
        ELSE \E id \in complete :
               /\ \A j \in complete : j = id \/ LexLess(j, id)
               /\ latest = Returned({e \in Group(listing, id) :
                                       e[2] # "CHECKSUM"})

\* C25: should_download returns false exactly when the local file exists,
\* the size recorded for it equals the remote size whenever the remote size
\* is known, and its recomputed SHA-256 equals the checksum stored in the
\* metadata; it returns true in every other case.
C25_UpToDateIffSizeAndChecksum ==
  (stale # NotCalled) =>
    (stale = Returned(FALSE)) <=>
       /\ file_info.exists
       /\ file_info.meta # <<>>
       /\ file_info.size # 0 => file_info.meta[1].size = file_info.size
       /\ file_info.sha = file_info.meta[1].checksum

\* C26: when download_file fails for selected files and nothing else fails,
\* download_discogs_data has gone through every selected file and returns
\* Ok with the files that are present (downloaded or up to date), in order,
\* the failed ones left out.
C26_FailedDownloadOmitted ==
  (/\ plan # <<>>
   /\ dl.result # <<>>
   /\ plan[1].metadata_saved
   /\ \A f \in Files : plan[1].cases[f] # "verify_err")
  => /\ dl.tried = FileOrder
     /\ dl.result =
          <<"Ok", SelectSeq(FileOrder,
                            LAMBDA f : plan[1].cases[f] # "fetch_fail")>>

\* the download of the second file failed and the later files are returned
C26_Witness ==
  /\ plan # <<>>
  /\ plan[1].cases[FileOrder[2]] = "fetch_fail"
  /\ plan[1].cases[FileOrder[3]] = "fetch_ok"
  /\ plan[1].cases[FileOrder[4]] = "cached"
  /\ dl.result = <<"Ok", <<FileOrder[1], FileOrder[3], FileOrder[4]>>>>

\* C27 (as stated): connect returns Ok at the first successful attempt,
\* makes at most max_retries attempts, waits 1 s after the first failure and
\* twice as long after each further one, never more than 30 s, and returns an
\* error once the retry budget is used up.
C27_AtMostMaxRetriesAttempts ==
  (conn # <<>>) =>
    LET c == conn[1] IN
    /\ c.attempts <= c.max_retries
    /\ \A i \in 1..Len(c.slept) :
         c.slept[i] = IF i = 1 THEN 1
                      ELSE IF 2 * c.slept[i - 1] > 30 THEN 30
                      ELSE 2 * c.slept[i - 1]
    /\ c.result = <<"Ok">> => c.attempts = Len(c.slept) + 1
    /\ c.result = <<"Err">> => c.attempts >= c.max_retries

\* C27 (amended): connect makes at most max_retries attempts, and one
\* attempt when max_retries is 0; it returns Ok at the first successful
\* attempt and an error when that many attempts have failed; between two
\* attempts it waits 1 s, 2 s, 4 s, ... and never more than 30 s.
C27_AttemptsAndBackoff ==
  (conn # <<>>) =>
    LET c == conn[1]
        budget == IF c.max_retries = 0 THEN 1 ELSE c.max_retries
    IN  /\ c.attempts <= budget
        /\ \A i \in 1..Len(c.slept) :
         c.slept[i] = IF i = 1 THEN 1
                      ELSE IF 2 * c.slept[i - 1] > 30 THEN 30
                      ELSE 2 * c.slept[i - 1]
        /\ c.result = <<"Ok">> => c.attempts = Len(c.slept) + 1
        /\ c.result = <<"Err">> =>
             c.attempts = budget /\ Len(c.slept) = budget - 1
        /\ c.result = <<>> => c.attempts = Len(c.slept)

\* the wait has reached its cap and the last attempt allowed has failed
C27_Witness ==
  /\ conn # <<>>
  /\ conn[1].result = <<"Err">>
  /\ Len(conn[1].slept) >= 7
  /\ conn[1].slept[6] = 30
  /\ conn[1].slept[7] = 30

\* C28: a message the broker does not ack makes publish return an error; in
\* publish_batch it gives a warning only: the remaining messages of the
\* batch are still published and, unless a publish fails otherwise,
\* publish_batch returns Ok.
C28_NackFailsSingleWarnsBatch ==
  (link # <<>> /\ link[1].channel) =>
    LET r == link[1].replies
        nacked == {i \in 1..Len(r) : r[i] = "nack"}
    IN  /\ (single # NotCalled /\ r[1] = "nack") => single = Returned("Err")
        /\ (batched # NotCalled /\ \A i \in 1..Len(r) : r[i] # "error") =>
             /\ batched[1].result = "Ok"
             /\ batched[1].sent = Len(r)
             /\ batched[1].warned = Cardinality(nacked)
             /\ batched[1].acked =
                  SelectSeq([i \in 1..Len(r) |-> i], LAMBDA i : r[i] = "ack")

\* the same nacked first message: an error from publish, and from
\* publish_batch Ok with the later messages acked
C28_Witness ==
  /\ link # <<>>
  /\ link[1].channel
  /\ link[1].replies = <<"nack", "ack", "ack">>
  /\ single = Returned("Err")
  /\ batched # NotCalled
  /\ batched[1].result = "Ok"
  /\ batched[1].acked = <<2, 3>>

\* C29: for every data type and every set of attributes, the self-closing
\* target element yields the same DataMessage (id, payload, hash) as the
\* start tag / end tag pair with the same attributes and an empty body, and
\* with attributes it emits a record made of exactly its attributes.
C29_SelfClosingLikeEmptyPair ==
  (/\ element # <<>>
   /\ DOMAIN element[1].children = {}
   /\ selfclosed # NotCalled
   /\ paired # NotCalled)
  => /\ selfclosed = paired
     /\ DOMAIN element[1].attributes # {} =>
          /\ Len(selfclosed[1]) = 1
          /\ selfclosed[1][1].data =
               to_value(element[1].attributes, <<>>)

\* C30 as stated: the id of a DataMessage is the text of the id child for
\* artists and labels and the value of the id attribute for masters and
\* releases, also when the record has both with different values; a record
\* without the id of its type has the id "unknown".
C30_IdSourceByType ==
  (element # <<>> /\ paired # NotCalled /\ paired[1] # <<>>) =>
    LET e == element[1]
        expected ==
          IF e.data_type \in {"artists", "labels"}
          THEN IF "id" \in DOMAIN e.children /\ e.children["id"][1] = "string"
               THEN e.children["id"][2] ELSE "unknown"
          ELSE IF "id" \in DOMAIN e.attributes
               THEN e.attributes["id"] ELSE "unknown"
    IN  paired[1][1].id = expected

\* C30 amended: for every data type, the id of the DataMessage sent at the
\* end tag of a record is the value of the record's id attribute when it has
\* one, otherwise the text of its id child when that child holds only text,
\* otherwise "unknown".
C30_AttributeThenChild ==
  (element # <<>> /\ paired # NotCalled /\ paired[1] # <<>>) =>
    LET e == element[1]
    IN  paired[1][1].id =
          IF "id" \in DOMAIN e.attributes THEN e.attributes["id"]
          ELSE IF "id" \in DOMAIN e.children /\ e.children["id"][1] = "string"
               THEN e.children["id"][2]
               ELSE "unknown"

\* an artists record with an id attribute and an id child of another text
\* has been sent with the attribute's value as its id
C30_Witness ==
  /\ element # <<>>
  /\ element[1].data_type = "artists"
  /\ "id" \in DOMAIN element[1].attributes
  /\ "id" \in DOMAIN element[1].children
  /\ element[1].children["id"] = JString("2")
  /\ element[1].attributes["id"] = "1"
  /\ paired # NotCalled
  /\ paired[1] # <<>>
  /\ paired[1][1].id = "1"

\* C31 as stated: when parse_file has read the whole document with the
\* receiver open, it has sent one DataMessage for each element of the data
\* type's singular name that opened at depth 2, none for any other element,
\* and the count returned is the number of messages sent.
C31_OneMessagePerRecordElement ==
  (pfile # <<>> /\ pfile[1].result # <<>> /\ ~xml[1].dropped) =>
    /\ pfile[1].emitted = xml[1].records
    /\ pfile[1].result = <<"Ok", Len(pfile[1].sent)>>

\* C31 amended: when parse_file has read the whole document with the
\* receiver open, it has sent one DataMessage for each element of the data
\* type's singular name that opened at depth 2 and has an attribute or a
\* child element, none for any other element, and the count returned is the
\* number of messages sent.
C31_OneMessagePerFilledRecord ==
  (pfile # <<>> /\ pfile[1].result # <<>> /\ ~xml[1].dropped) =>
    /\ pfile[1].emitted = xml[1].filled
    /\ Len(pfile[1].sent) = Len(pfile[1].emitted)
    /\ pfile[1].result = <<"Ok", Len(pfile[1].sent)>>

\* a labels document has been read to its end in which a record holds a
\* label element nested in sublabels: one message was sent, for the record
C31_Witness ==
  /\ pfile # <<>>
  /\ pfile[1].data_type = "labels"
  /\ pfile[1].result = <<"Ok", 1>>
  /\ xml[1].tags = 4
  /\ pfile[1].emitted = <<2>>
  /\ "sublabels" \in DOMAIN pfile[1].sent[1].data[2]
  /\ pfile[1].sent[1].data[2]["sublabels"][1] = "object"
  /\ "label" \in DOMAIN pfile[1].sent[1].data[2]["sublabels"][2]

\* C32: when the receiver of the record channel is dropped and parse_file
\* then has a record to send, it stops there and returns Ok with the number
\* of records it sent before.
C32_ClosedChannelEndsParseOk ==
  (/\ pfile # <<>>
   /\ xml[1].dropped
   /\ pfile[1].result # <<>>) =>
    /\ pfile[1].result = <<"Ok", Len(pfile[1].sent)>>
    /\ Len(pfile[1].sent) = Len(pfile[1].emitted)

\* the parse has ended at a record it could not send, after it sent one,
\* with elements of the document still open
C32_Witness ==
  /\ pfile # <<>>
  /\ xml[1].dropped
  /\ xml[1].open # <<>>
  /\ Len(xml[1].filled) = 2
  /\ pfile[1].result = <<"Ok", 1>>

\* C33 as stated: over the lifetime of a process, through its successive
\* runs, each of the four counters of extraction_progress is at every step
\* greater than or equal to its previous value.
C33_CountersNeverDecrease ==
  [][(initial' /\ ~initial)
     \/ \A f \in Files : extraction_progress'[f] >= extraction_progress[f]]_vars

\* C33 amended: the start of every run sets the four counters to 0, and at
\* every other step of the process each counter is greater than or equal to
\* its previous value.
C33_CountersGrowWithinRun ==
  [][(initial' /\ ~initial)
     \/ IF pc = "start" /\ pc' # "start"
        THEN extraction_progress' = Zero
        ELSE \A f \in Files :
               extraction_progress'[f] >= extraction_progress[f]]_vars

\* a periodic run, whose start has reset the counters, has counted a record
C33_Witness ==
  /\ ~initial
  /\ pc = "await"
  /\ extraction_progress[FileOrder[1]] > 0

\* C34: for a finite file and a broker that answers every publish, the
\* parser, the batcher and the publisher all end with the channels drained,
\* and the FileCompleteMessage of the file is eventually sent.
C34_PipelineTerminates ==
  /\ <>[](/\ parsing = "eof"
          /\ batcherDone
          /\ rchan = <<>>
          /\ batch = <<>>
          /\ bchan = <<>>
          /\ inpub = <<>>)
  /\ <>(stage = "done" /\ fcmsgs = <<record_count>>)

\* a file with more records than the channels and a batch hold together has
\* gone through and its FileCompleteMessage was sent
C34_Witness ==
  /\ stage = "done"
  /\ record_count = PipeRecords
  /\ Len(published) = PipeRecords
  /\ fcmsgs = <<PipeRecords>>

\* C35: at each wake-up of the progress reporter, a stall warning is emitted
\* for every data type whose last record was received more than 120 seconds
\* before the wake-up and whose file has not completed.
C35_StallWarned ==
  (reporter # <<>> /\ reporter[1].woke) =>
    \A d \in DOMAIN reporter[1].received :
      (/\ d \notin reporter[1].completed
       /\ reporter[1].clock - reporter[1].received[d] > StallSeconds)
      => d \in reporter[1].stalled

\* C36: for every file and at every point of a run, the messages_published
\* of the file in the marker is at most the number of DataMessages of the
\* file that the broker has acknowledged so far.
C36_PublishedWithinAcked ==
  \A f \in Files :
    marker.progress_by_file[f].messages_published <= Cardinality(delivered[f])

\* C37: when a file ends Completed and none of its publishes failed, its
\* messages_published in the marker equals its records_extracted, whatever
\* the number of records of the file.
C37_CompletedFilePublishedAll ==
  (stage \in {"completed", "done"} /\ ~pubfail) =>
    marker.progress_by_file[PipeFile].messages_published
      = marker.progress_by_file[PipeFile].records_extracted

\* C38: when process_discogs_data has returned, active_connections has no
\* entry for a file pipeline that has ended, whether it ended successfully
\* or with an error.
C38_NoConnectionLeftAfterRun ==
  pc \in {"sleep", "exit_ok", "exit_err"} => active_connections = {}

\* C39: when several file tasks of one run of the ProcessingState-based
\* orchestrator have finished successfully, every one of those files is
\* recorded as processed in .processing_state.json after the run, whatever
\* the interleaving of the tasks' load, mark_processed and save steps.
C39_EveryFinishedFileRecorded ==
  (\A f \in Files : task[f] \in {"skipped", "failed", "done"}) =>
    \A f \in Files : task[f] = "done" => f \in processing_state_file

\* C40: a run that is not forced and finds the marker file of the version
\* with overall_status Completed starts no download and no file pipeline,
\* publishes no message and leaves the marker file as it is; this holds for
\* the initial run and for a periodic run.
C40_CompletedVersionUntouched ==
  [][ (/\ pc = "start"
       /\ ~(initial /\ force)
       /\ disk # <<>>
       /\ disk[1].overall_status = "Completed")
      => /\ pc' \in {"start", "sleep", "exit_ok", "exit_err"}
         /\ \A f \in Files : /\ pipe'[f] \in {"idle", pipe[f]}
                            /\ parser'[f] \in {"none", parser[f]}
         /\ delivered' = delivered
         /\ fcEver' = fcEver
         /\ disk' = disk ]_vars

\* a periodic run, every call of which succeeded, has skipped a version whose
\* marker file says Completed and whose messages were published by an
\* earlier run
C40_Witness ==
  /\ pc = "sleep"
  /\ faults = 0
  /\ ~initial
  /\ disk # <<>>
  /\ disk[1].overall_status = "Completed"
  /\ should_process(disk[1]) = "Skip"
  /\ \A f \in Files : pipe[f] = "idle"
  /\ \E f \in Files : delivered[f] # {}

====
